---- MODULE Spec2Model ----
(***************************************************************************)
(* RESP codec of mini-redis (package radish): the buffered Reader with its *)
(* pooled Command frames, and the Writer operations that produce the bytes *)
(* the Reader consumes.                                                    *)
(*                                                                         *)
(* Bytes are their ASCII codes.  A byte slice is a sequence of bytes.      *)
(* A Command is modelled with its backing arrays, so that an Arg is a view *)
(* (array, offset, length) as in Go and not a copy.                        *)
(***************************************************************************)
EXTENDS Integers, Sequences, FiniteSets, Bags, TLC

----------------------------------------------------------------------------
(* Bounds of the model *)

\* Width of Go's int in the model (64 in the program).
IntBits == 8
\* Size of the bufio.Reader buffer (4096 in the program).
BufSize == 10
\* Size of the bufio.Writer buffer (4096 in the program).
WBufSize == 9
\* Initial capacity of Command.Raw (initialCommandRawSize, 1024 in the program).
initialCommandRawSize == 8
\* Number of typed reads (ReadSimpleString, ...) a caller makes on one Reader.
MaxTyped == 1
\* Number of items (commands, headers, malformed pieces) in a source.
MaxItems == 2
\* Number of Readers that share commandPool in the concurrent runs.
NumReaders == 2
\* Longest payload of the lines read one by one.
MaxPayload == 2

----------------------------------------------------------------------------
(* Bytes *)

CR == 13
LF == 10
Zero == 48
Minus == 45
Space == 32
LetterA == 97
LetterB == 98
LetterF == 102
LetterN == 110
LetterR == 114
LetterT == 116
LetterV == 118
LetterX == 120
UpperE == 69
UpperR == 82
DoubleQuote == 34
Backslash == 92
Delete == 127
StartOfHeading == 1

DataTypeSimpleString == 43
DataTypeError == 45
DataTypeInteger == 58
DataTypeBulkString == 36
DataTypeArray == 42
DataTypeNull == 95

initialCommandArgsSize == 4

Min(a, b) == IF a < b THEN a ELSE b

Zeros(n) == [i \in 1..n |-> 0]

Drop(s, n) == SubSeq(s, n + 1, Len(s))
Take(s, n) == SubSeq(s, 1, n)

\* x := v, then Op(x): v is evaluated once, as Go evaluates the right-hand
\* side of a declaration and the arguments of a call.
Let(v, Op(_)) == CHOOSE y \in {Op(x) : x \in {v}} : TRUE

----------------------------------------------------------------------------
(* Go's int: two's complement on IntBits bits *)

MaxInt == 2 ^ (IntBits - 1) - 1
MinInt == -(2 ^ (IntBits - 1))

\* an int that stays at its least and greatest value instead of wrapping
WrapInt_saturating(x) ==
    IF x > MaxInt THEN MaxInt ELSE IF x < MinInt THEN MinInt ELSE x

WrapInt(x) == ((x - MinInt) % (2 ^ IntBits)) + MinInt

----------------------------------------------------------------------------
(* Errors.  One shape for all of them: k names the error, x and y carry the *)
(* two bytes of the "expected 'X', got 'Y'" message.                        *)

Err(k) == [k |-> k, x |-> 0, y |-> 0]
nil == Err("nil")
EOF == Err("EOF")
ErrTransport == Err("transport")
ErrBufferFull == Err("ErrBufferFull")
ErrBulkLength == Err("ErrBulkLength")
ErrMultibulkLength == Err("ErrMultibulkLength")
ErrIntegerValue == Err("ErrIntegerValue")
errValue == Err("errValue")
errLineLimitExceeded == Err("errLineLimitExceeded")
\* an error that names the actual byte as the expected one
ErrExpected_swapped(dt, ch) == [k |-> "expected", x |-> ch, y |-> dt]

\* &Error{"ERR", "expected '" + string(dt) + "', got '" + string(ch) + "'"}
ErrExpected(dt, ch) == [k |-> "expected", x |-> dt, y |-> ch]

----------------------------------------------------------------------------
(* bufio.Reader over an io.Reader.                                          *)
(* A reader record R holds buf (the buffered, unread bytes b.buf[b.r:b.w]), *)
(* src (the bytes the source has not delivered yet), chunk (the most bytes  *)
(* the source delivers in one Read) and fail (the error the source returns  *)
(* once it is drained: io.EOF, or a transport error).  The source reports   *)
(* its error on a call of its own, as bytes.Buffer, strings.Reader and a    *)
(* connection do.                                                           *)

RECURSIVE IndexFrom(_, _, _)
IndexFrom(s, ch, i) ==
    IF i > Len(s) THEN 0
    ELSE IF s[i] = ch THEN i
    ELSE IndexFrom(s, ch, i + 1)

IndexByte(s, ch) == IndexFrom(s, ch, 1)

\* bufio.Reader.fill: slide the unread bytes to the front, then one Read of
\* the source into the free space.
fill(R) ==
    LET n == Min(Min(R.chunk, BufSize - Len(R.buf)), Len(R.src))
    IN  [R EXCEPT !.buf = R.buf \o Take(R.src, n), !.src = Drop(R.src, n)]

\* bufio.Reader.ReadSlice('\n').
RECURSIVE ReadSlice(_)
ReadSlice(R) ==
    Let(IndexByte(R.buf, LF), LAMBDA i :
        IF i > 0
        THEN [frag |-> Take(R.buf, i), err |-> nil,
              R |-> [R EXCEPT !.buf = Drop(R.buf, i)]]
        ELSE IF Len(R.buf) >= BufSize
        THEN [frag |-> R.buf, err |-> ErrBufferFull,
              R |-> [R EXCEPT !.buf = << >>]]
        ELSE IF R.src = << >>
        THEN [frag |-> R.buf, err |-> R.fail,
              R |-> [R EXCEPT !.buf = << >>]]
        ELSE Let(fill(R), LAMBDA F : ReadSlice(F)))

\* bufio.Reader.Read(p) with len(p) = k > 0: at most one Read of the source.
bufioRead(R, k) ==
    IF R.buf = << >>
    THEN IF R.src = << >>
         THEN [p |-> << >>, err |-> R.fail, R |-> R]
         ELSE IF k >= BufSize
         THEN \* Large read, empty buffer: read directly into p.
              LET n == Min(Min(R.chunk, k), Len(R.src))
              IN  [p |-> Take(R.src, n), err |-> nil,
                   R |-> [R EXCEPT !.src = Drop(R.src, n)]]
         ELSE Let(fill(R), LAMBDA F :
                  LET n == Min(k, Len(F.buf))
                  IN  [p |-> Take(F.buf, n), err |-> nil,
                       R |-> [F EXCEPT !.buf = Drop(F.buf, n)]])
    ELSE LET n == Min(k, Len(R.buf))
         IN  [p |-> Take(R.buf, n), err |-> nil,
              R |-> [R EXCEPT !.buf = Drop(R.buf, n)]]

----------------------------------------------------------------------------
(* Command.                                                                 *)
(* arrs: the backing arrays Raw has had since the last reset, each with its *)
(*       whole capacity; the last one is the array of Raw, the earlier ones *)
(*       are kept alive by the Args that point into them.                   *)
(* len:  len(Raw).   args: the Args, views [a, off, len] into arrs[a].      *)
(* argsCap: cap(Args).                                                      *)

RawArr(c) == c.arrs[Len(c.arrs)]
Raw(c) == Take(RawArr(c), c.len)
CapRaw(c) == Len(RawArr(c))
ArgBytes(c, i) ==
    LET v == c.args[i] IN SubSeq(c.arrs[v.a], v.off + 1, v.off + v.len)
Args(c) == [i \in 1..Len(c.args) |-> ArgBytes(c, i)]

\* A Command as newCommand allocates it.
allocCommand ==
    [arrs |-> <<Zeros(initialCommandRawSize)>>, len |-> 0,
     args |-> << >>, argsCap |-> initialCommandArgsSize]

\* Capacity Go's append gives a slice of capacity cap that must hold need.
appendCap(cap, need) == IF need > 2 * cap THEN need ELSE 2 * cap

\* a reset that empties Args and leaves Raw as it is
reset_keepRaw(c) ==
    [arrs |-> <<RawArr(c)>>, len |-> c.len, args |-> << >>, argsCap |-> c.argsCap]

\* Command.reset: Raw[:0], Args[:0].
reset(c) ==
    [arrs |-> <<RawArr(c)>>, len |-> 0, args |-> << >>, argsCap |-> c.argsCap]

\* cmd.Raw = append(cmd.Raw, p...)
appendRaw(c, p) ==
    LET need == c.len + Len(p)
    IN  IF need <= CapRaw(c)
        THEN [c EXCEPT !.arrs[Len(c.arrs)] =
                           Raw(c) \o p \o Drop(RawArr(c), need),
                       !.len = need]
        ELSE [c EXCEPT !.arrs = Append(c.arrs,
                           Raw(c) \o p \o Zeros(appendCap(CapRaw(c), need) - need)),
                       !.len = need]

\* a grow that takes n for the new length of Raw when Raw has the room
grow_toLength(c, n) ==
    IF n <= CapRaw(c) - c.len
    THEN [c EXCEPT !.len = n]
    ELSE appendRaw(c, Zeros(n))

\* Command.grow
grow(c, n) ==
    IF n <= CapRaw(c) - c.len
    THEN [c EXCEPT !.len = c.len + n]
    ELSE appendRaw(c, Zeros(n))

\* copy of p into cmd.Raw[si:], si counted from 0
writeRaw(c, si, p) ==
    [c EXCEPT !.arrs[Len(c.arrs)] =
                  Take(RawArr(c), si) \o p \o Drop(RawArr(c), si + Len(p))]

hasTerminator(b) ==
    Len(b) > 1 /\ b[Len(b) - 1] = CR /\ b[Len(b)] = LF

\* parseInt: result [n, err]
RECURSIVE parseDigits(_, _)
parseDigits(b, n) ==
    IF b = << >> THEN [n |-> n, err |-> nil]
    ELSE LET ch == (Head(b) - Zero) % 256
         IN  IF ch > 9 THEN [n |-> 0, err |-> errValue]
             ELSE parseDigits(Tail(b), WrapInt(n * 10 + ch))

parseInt(b) ==
    IF Len(b) = 0 THEN [n |-> 0, err |-> errValue]
    ELSE IF b[1] = Minus
    THEN LET r == parseDigits(Tail(b), 0)
         IN  IF r.err # nil THEN r ELSE [n |-> WrapInt(-1 * r.n), err |-> nil]
    ELSE parseDigits(b, 0)

----------------------------------------------------------------------------
(* Reader.readLine, readValue, readBulk: each takes the reader record R and *)
(* the Command c it fills, and returns them updated with its results.       *)

RECURSIVE readLineLoop(_, _, _, _)
readLineLoop(limit, length, R, c) ==
    IF ~(limit <= 0 \/ length < limit)
    THEN [err |-> nil, R |-> R, c |-> c]
    ELSE Let(ReadSlice(R), LAMBDA s :
             IF s.err = nil
             THEN \* Got the final fragment.
                  Let(appendRaw(c, s.frag), LAMBDA c2 :
                      IF Len(s.frag) < 2 \/ s.frag[Len(s.frag) - 1] # CR
                      THEN readLineLoop(limit, length + Len(s.frag), s.R, c2)
                      ELSE [err |-> nil, R |-> s.R, c |-> c2])
             ELSE IF s.err # ErrBufferFull
             THEN [err |-> s.err, R |-> s.R, c |-> c]
             ELSE Let(appendRaw(c, s.frag), LAMBDA c2 :
                      readLineLoop(limit, length + Len(s.frag), s.R, c2)))

\* a readLine that puts the LF back when the line is of another type
readLine_unreadsRefused(dt, limit, R, c) ==
    Let(readLineLoop(limit, 0, R, c), LAMBDA l :
        LET start == c.len
            noLine == [a |-> 0, off |-> 0, len |-> 0]
        IN  IF l.err # nil
            THEN [line |-> noLine, err |-> l.err, R |-> l.R, c |-> l.c]
            ELSE IF ~hasTerminator(Raw(l.c))
            THEN [line |-> noLine, err |-> errLineLimitExceeded,
                  R |-> l.R, c |-> l.c]
            ELSE IF Raw(l.c)[start + 1] # dt
            THEN [line |-> noLine, err |-> ErrExpected(dt, Raw(l.c)[start + 1]),
                  R |-> [l.R EXCEPT !.buf = <<LF>> \o @], c |-> l.c]
            ELSE [line |-> [a |-> Len(l.c.arrs), off |-> start + 1,
                            len |-> (l.c.len - 2) - (start + 1)],
                  err |-> nil, R |-> l.R, c |-> l.c])

\* line is the view cmd.Raw[start+1 : len(cmd.Raw)-2]
readLine(dt, limit, R, c) ==
    Let(readLineLoop(limit, 0, R, c), LAMBDA l :
        LET start == c.len
            noLine == [a |-> 0, off |-> 0, len |-> 0]
        IN  IF l.err # nil
            THEN [line |-> noLine, err |-> l.err, R |-> l.R, c |-> l.c]
            ELSE IF ~hasTerminator(Raw(l.c))
            THEN [line |-> noLine, err |-> errLineLimitExceeded,
                  R |-> l.R, c |-> l.c]
            ELSE IF Raw(l.c)[start + 1] # dt
            THEN [line |-> noLine, err |-> ErrExpected(dt, Raw(l.c)[start + 1]),
                  R |-> l.R, c |-> l.c]
            ELSE [line |-> [a |-> Len(l.c.arrs), off |-> start + 1,
                            len |-> (l.c.len - 2) - (start + 1)],
                  err |-> nil, R |-> l.R, c |-> l.c])

View(c, v) == SubSeq(c.arrs[v.a], v.off + 1, v.off + v.len)

RECURSIVE Digits(_)
Digits(n) == IF n < 10 THEN <<Zero + n>> ELSE Digits(n \div 10) \o <<Zero + (n % 10)>>

\* strconv.AppendInt(nil, i, 10)
Itoa(i) == IF i < 0 THEN <<Minus>> \o Digits(-i) ELSE Digits(i)

\* Length of the string form of the <marker> + int + <CRLF>.
maxLength == Len(<<DataTypeInteger>> \o Itoa(MinInt) \o <<CR, LF>>)

readValue(dt, R, c) ==
    Let(readLine(dt, maxLength, R, c), LAMBDA l :
        IF l.err # nil
        THEN [n |-> 0,
              err |-> IF l.err = errLineLimitExceeded THEN errValue ELSE l.err,
              R |-> l.R, c |-> l.c]
        ELSE Let(parseInt(View(l.c, l.line)), LAMBDA p :
                 [n |-> p.n, err |-> p.err, R |-> l.R, c |-> l.c]))

\* a single Read taken to fill the whole of cmd.Raw[si:]
readContent_oneRead(R, c, si, remain) ==
    IF remain <= 0 THEN [err |-> nil, R |-> R, c |-> c]
    ELSE Let(bufioRead(R, c.len - si), LAMBDA x :
             IF x.err # nil THEN [err |-> x.err, R |-> x.R, c |-> c]
             ELSE [err |-> nil, R |-> x.R, c |-> writeRaw(c, si, x.p)])

\* for remain > 0 { n, err := r.r.Read(cmd.Raw[si:]) ... }
RECURSIVE readContent(_, _, _, _)
readContent(R, c, si, remain) ==
    IF remain <= 0 THEN [err |-> nil, R |-> R, c |-> c]
    ELSE Let(bufioRead(R, c.len - si), LAMBDA x :
             IF x.err # nil THEN [err |-> x.err, R |-> x.R, c |-> c]
             ELSE Let(writeRaw(c, si, x.p), LAMBDA c2 :
                      readContent(x.R, c2, si + Len(x.p), remain - Len(x.p))))

crlfLength == Len(<<CR, LF>>)

ErrPanic == Err("panic")

\* a bulk that keeps its terminator: cmd.Raw[start:]
bulkView_withCRLF(c, start) ==
    [a |-> Len(c.arrs), off |-> start, len |-> c.len - start]

\* the bulk readBulk returns: cmd.Raw[start : len(cmd.Raw)-2]
bulkView(c, start) ==
    [a |-> Len(c.arrs), off |-> start, len |-> (c.len - 2) - start]

\* a readBulk that reads a terminator after the header of a null
readBulk_nullReadsOn(R, c) ==
    Let(readValue(DataTypeBulkString, R, c), LAMBDA v :
        LET noBulk == [a |-> 0, off |-> 0, len |-> 0]
            start == v.c.len
            remain == WrapInt(v.n + crlfLength)
        IN  IF v.err # nil
            THEN [bulk |-> noBulk, null |-> FALSE,
                  err |-> IF v.err = errValue THEN ErrBulkLength ELSE v.err,
                  R |-> v.R, c |-> v.c]
            ELSE IF v.n < 0
            THEN [bulk |-> noBulk, null |-> TRUE, err |-> nil,
                  R |-> bufioRead(v.R, crlfLength).R, c |-> v.c]
            ELSE IF v.c.len + remain < 0
            THEN \* grow slices Raw to a negative length: the runtime panics
                 [bulk |-> noBulk, null |-> FALSE, err |-> ErrPanic,
                  R |-> v.R, c |-> v.c]
            ELSE Let(grow(v.c, remain), LAMBDA g :
                 Let(readContent(v.R, g, start, remain), LAMBDA x :
                     IF x.err # nil
                     THEN [bulk |-> noBulk, null |-> FALSE, err |-> x.err,
                           R |-> x.R, c |-> x.c]
                     ELSE IF ~hasTerminator(Raw(x.c))
                     THEN [bulk |-> noBulk, null |-> FALSE, err |-> ErrBulkLength,
                           R |-> x.R, c |-> x.c]
                     ELSE [bulk |-> bulkView(x.c, start),
                           null |-> FALSE, err |-> nil, R |-> x.R, c |-> x.c])))

readBulk(R, c) ==
    Let(readValue(DataTypeBulkString, R, c), LAMBDA v :
        LET noBulk == [a |-> 0, off |-> 0, len |-> 0]
            start == v.c.len
            remain == WrapInt(v.n + crlfLength)
        IN  IF v.err # nil
            THEN [bulk |-> noBulk, null |-> FALSE,
                  err |-> IF v.err = errValue THEN ErrBulkLength ELSE v.err,
                  R |-> v.R, c |-> v.c]
            ELSE IF v.n < 0
            THEN [bulk |-> noBulk, null |-> TRUE, err |-> nil,
                  R |-> v.R, c |-> v.c]
            ELSE IF v.c.len + remain < 0
            THEN \* grow slices Raw to a negative length: the runtime panics
                 [bulk |-> noBulk, null |-> FALSE, err |-> ErrPanic,
                  R |-> v.R, c |-> v.c]
            ELSE Let(grow(v.c, remain), LAMBDA g :
                 Let(readContent(v.R, g, start, remain), LAMBDA x :
                     IF x.err # nil
                     THEN [bulk |-> noBulk, null |-> FALSE, err |-> x.err,
                           R |-> x.R, c |-> x.c]
                     ELSE IF ~hasTerminator(Raw(x.c))
                     THEN [bulk |-> noBulk, null |-> FALSE, err |-> ErrBulkLength,
                           R |-> x.R, c |-> x.c]
                     ELSE [bulk |-> bulkView(x.c, start),
                           null |-> FALSE, err |-> nil, R |-> x.R, c |-> x.c])))

----------------------------------------------------------------------------
(* Writer over a bufio.Writer.  A writer record w holds buf (the bytes the  *)
(* bufio.Writer has buffered), err (the error the bufio.Writer keeps once a *)
(* write to the io.Writer failed), smallbuf, ret (the error the last call   *)
(* on w returned) and the io.Writer: sink (the bytes it has received),      *)
(* faulty and room (a faulty io.Writer takes room more bytes, and its Write *)
(* fails with a transport error from the byte after); old holds the bytes   *)
(* received by the io.Writer that w wrote to before its last Reset.         *)

\* an io.Writer that never fails, as bytes.Buffer
bytesBuffer == [faulty |-> FALSE, room |-> 0]

\* an io.Writer that takes room bytes and then fails
faultyWriter(room) == [faulty |-> TRUE, room |-> room]

NewWriter(wr) ==
    [buf |-> << >>, err |-> nil, ret |-> nil, smallbuf |-> << >>,
     sink |-> << >>, faulty |-> wr.faulty, room |-> wr.room, old |-> << >>]

\* a Reset that flushes the buffered bytes to the io.Writer it leaves
Reset_flushesFirst(w, wr) ==
    Let(IF w.err = nil /\ Len(w.buf) > 0
           THEN IF w.faulty /\ w.room < Len(w.buf)
                   THEN w.sink \o Take(w.buf, w.room)
                   ELSE w.sink \o w.buf
           ELSE w.sink,
        LAMBDA left :
            [w EXCEPT !.buf = << >>, !.err = nil, !.ret = nil, !.old = left,
                      !.sink = << >>, !.faulty = wr.faulty,
                      !.room = wr.room])

\* Writer.Reset, bufio.Writer.Reset: the buffered bytes and the error are
\* dropped, wr is the io.Writer from now on; the io.Writer that w leaves
\* keeps the bytes it has received
Reset(w, wr) ==
    [w EXCEPT !.buf = << >>, !.err = nil, !.ret = nil, !.old = w.sink,
              !.sink = << >>, !.faulty = wr.faulty, !.room = wr.room]

wAvailable(w) == WBufSize - Len(w.buf)

\* Write of the io.Writer: the bytes it takes of p, and its error when it
\* does not take them all
sinkWrite(w, p) ==
    LET n == IF w.faulty /\ w.room < Len(p) THEN w.room ELSE Len(p)
    IN  [w |-> [w EXCEPT !.sink = @ \o Take(p, n),
                         !.room = IF w.faulty THEN @ - n ELSE @],
         n |-> n,
         err |-> IF n < Len(p) THEN ErrTransport ELSE nil]

\* a Flush that reports success whatever the io.Writer returned
Flush_hidesError(w) ==
    Let(sinkWrite(w, w.buf), LAMBDA x :
        [x.w EXCEPT !.buf = << >>, !.ret = nil])

\* Writer.Flush, bufio.Writer.Flush
Flush(w) ==
    IF w.err # nil THEN [w EXCEPT !.ret = w.err]
    ELSE IF Len(w.buf) = 0 THEN [w EXCEPT !.ret = nil]
    ELSE Let(sinkWrite(w, w.buf), LAMBDA x :
             IF x.err # nil
             THEN [x.w EXCEPT !.buf = Drop(w.buf, x.n), !.err = x.err,
                              !.ret = x.err]
             ELSE [x.w EXCEPT !.buf = << >>, !.ret = nil])

\* a WriteByte that does not look at the error the bufio.Writer keeps
WriteByte_forgetsError(w, ch) ==
    Let(IF wAvailable(w) <= 0 THEN Flush([w EXCEPT !.err = nil]) ELSE w,
        LAMBDA f : [f EXCEPT !.buf = Append(Take(f.buf, WBufSize - 1), ch),
                             !.ret = nil])

\* bufio.Writer.WriteByte
WriteByte(w, ch) ==
    IF w.err # nil THEN [w EXCEPT !.ret = w.err]
    ELSE Let(IF wAvailable(w) <= 0 THEN Flush(w) ELSE w, LAMBDA f :
             IF f.err # nil THEN [f EXCEPT !.ret = f.err]
             ELSE [f EXCEPT !.buf = Append(f.buf, ch), !.ret = nil])

\* a Write that buffers what fits whatever error the bufio.Writer keeps
RECURSIVE bufioWrite_notSticky(_, _)
bufioWrite_notSticky(w, p) ==
    IF Len(p) > wAvailable(w) /\ w.err = nil
    THEN IF Len(w.buf) = 0
         THEN Let(sinkWrite(w, p), LAMBDA x :
                  bufioWrite_notSticky([x.w EXCEPT !.err = x.err],
                                       Drop(p, x.n)))
         ELSE Let(wAvailable(w), LAMBDA n :
                  bufioWrite_notSticky(
                      Flush([w EXCEPT !.buf = w.buf \o Take(p, n)]),
                      Drop(p, n)))
    ELSE IF Len(p) <= wAvailable(w)
         THEN [w EXCEPT !.buf = w.buf \o p, !.ret = nil]
         ELSE [w EXCEPT !.ret = w.err]

\* bufio.Writer.Write and WriteString
RECURSIVE bufioWrite(_, _)
bufioWrite(w, p) ==
    IF Len(p) > wAvailable(w) /\ w.err = nil
    THEN IF Len(w.buf) = 0
         THEN \* Large write, empty buffer: write directly to the io.Writer.
              Let(sinkWrite(w, p), LAMBDA x :
                  bufioWrite([x.w EXCEPT !.err = x.err], Drop(p, x.n)))
         ELSE Let(wAvailable(w), LAMBDA n :
                  bufioWrite(Flush([w EXCEPT !.buf = w.buf \o Take(p, n)]),
                             Drop(p, n)))
    ELSE IF w.err # nil THEN [w EXCEPT !.ret = w.err]
         ELSE [w EXCEPT !.buf = w.buf \o p, !.ret = nil]

writeType(w, t) == WriteByte(w, t)

writeTerminator(w) == bufioWrite(w, <<CR, LF>>)

\* every int written as one digit
writeInt_oneDigit(w, i) == WriteByte(w, Zero + i)

\* a writeInt that appends to what the last call left in smallbuf
writeInt_keepsSmallbuf(w, i) ==
    IF i >= 0 /\ i <= 9 THEN WriteByte(w, Zero + i)
    ELSE Let(w.smallbuf \o Itoa(i), LAMBDA b :
             bufioWrite([w EXCEPT !.smallbuf = b], b))

\* writeInt: one byte for 0..9, strconv.AppendInt into smallbuf[:0] for the
\* rest
writeInt(w, i) ==
    IF i >= 0 /\ i <= 9 THEN WriteByte(w, Zero + i)
    ELSE Let(Take(w.smallbuf, 0) \o Itoa(i), LAMBDA b :
             bufioWrite([w EXCEPT !.smallbuf = b], b))

writePrefix(w, prefix, n) ==
    writeTerminator(writeInt(WriteByte(w, prefix), n))

\* a WriteArray that writes a negative length as 0
WriteArray_clampsNegative(w, n) ==
    writePrefix(w, DataTypeArray, IF n < 0 THEN 0 ELSE n)

WriteArray(w, n) == writePrefix(w, DataTypeArray, n)

WriteBytes(w, b) ==
    writeTerminator(bufioWrite(writePrefix(w, DataTypeBulkString, Len(b)), b))

\* strconv.AppendUint(b, i, 10)
Utoa(i) == Digits(i)

\* writeUint: one byte for 0..9, strconv.AppendUint into smallbuf[:0] for
\* the rest
writeUint(w, i) ==
    IF i <= 9 THEN WriteByte(w, Zero + i)
    ELSE Let(Take(w.smallbuf, 0) \o Utoa(i), LAMBDA b :
             bufioWrite([w EXCEPT !.smallbuf = b], b))

\* the loop of writeEscapedString: CR as "\r", LF as "\n", every other byte
\* as it is; the error kept is the one of the last write
RECURSIVE writeEscapedFrom(_, _)
writeEscapedFrom(w, s) ==
    IF s = << >> THEN w
    ELSE writeEscapedFrom(
             CASE Head(s) = CR -> bufioWrite(w, <<Backslash, LetterR>>)
               [] Head(s) = LF -> bufioWrite(w, <<Backslash, LetterN>>)
               [] OTHER -> WriteByte(w, Head(s)),
             Tail(s))

\* writeEscapedString: var err error, then the loop
writeEscapedString(w, s) == writeEscapedFrom([w EXCEPT !.ret = nil], s)

\* a writeString that writes every s as it is
writeString_verbatim(w, s) == bufioWrite(w, s)

\* writeString: escaped when s holds a CR or a LF, as it is otherwise
writeString(w, s) ==
    IF \E i \in 1..Len(s) : s[i] \in {CR, LF}
    THEN writeEscapedString(w, s)
    ELSE bufioWrite(w, s)

WriteSimpleString(w, s) ==
    writeTerminator(writeString(writeType(w, DataTypeSimpleString), s))

\* "ERR"
DefaultKind == <<UpperE, UpperR, UpperR>>

\* a WriteRawError that writes the space also before an empty msg
WriteRawError_alwaysSpace(w, kind, msg) ==
    Let(IF kind = << >> THEN DefaultKind ELSE kind, LAMBDA k :
        writeTerminator(
            writeString(WriteByte(writeString(writeType(w, DataTypeError), k),
                                  Space),
                        msg)))

WriteRawError(w, kind, msg) ==
    Let(IF kind = << >> THEN DefaultKind ELSE kind, LAMBDA k :
    Let(writeString(writeType(w, DataTypeError), k), LAMBDA w1 :
        writeTerminator(IF msg # << >>
                        THEN writeString(WriteByte(w1, Space), msg)
                        ELSE w1)))

\* WriteError: e is an Error, a record of Kind and Msg
WriteError(w, e) == WriteRawError(w, e.Kind, e.Msg)

WriteInt64(w, i) ==
    writeTerminator(writeInt(writeType(w, DataTypeInteger), i))

\* int64(i) of an int keeps the value
WriteInt(w, i) == WriteInt64(w, i)

\* int64(i) of an int32 keeps the value
WriteInt32(w, i) == WriteInt64(w, i)

WriteUint64(w, i) ==
    writeTerminator(writeUint(writeType(w, DataTypeInteger), i))

\* uint64(i) of a uint keeps the value
WriteUint(w, i) == WriteUint64(w, i)

\* uint64(i) of a uint32 keeps the value
WriteUint32(w, i) == WriteUint64(w, i)

\* a WriteString that escapes CR and LF in the payload
WriteString_escaped(w, s) ==
    writeTerminator(writeString(writePrefix(w, DataTypeBulkString, Len(s)), s))

\* WriteString: a string holds the bytes WriteBytes is given as a slice
WriteString(w, s) ==
    writeTerminator(bufioWrite(writePrefix(w, DataTypeBulkString, Len(s)), s))

\* WriteNull: w.w.WriteString("$-1\r\n")
WriteNull(w) ==
    bufioWrite(w, <<DataTypeBulkString, Minus, Zero + 1, CR, LF>>)

RECURSIVE writeAllBytes(_, _)
writeAllBytes(w, args) ==
    IF args = << >> THEN w
    ELSE writeAllBytes(WriteBytes(w, Head(args)), Tail(args))

\* The bytes of a command as the tests build them: WriteArray, one
\* WriteBytes per argument, Flush.
buildRawCommand(args) ==
    Flush(writeAllBytes(WriteArray(NewWriter(bytesBuffer), Len(args)), args)).sink

----------------------------------------------------------------------------
(* State *)

VARIABLES
    cmds,         \* the Commands allocated so far; a *Command is an index
    commandPool,  \* the process-wide sync.Pool: a bag of *Command
    rd,           \* the Readers with their sources and the call in progress
    held,         \* the *Command the callers hold (returned, not released)
    nReads,       \* number of ReadCommand calls that returned a Command
    nReleases,    \* number of Commands the callers put back
    call,         \* a call of a function of the package on its own:
                  \* its name, its argument and, once it returned, its result
    writer        \* a Writer with its io.Writer (w), the Writer as its last
                  \* write operation found it (prev), the last call on it,
                  \* and the write operations issued since NewWriter or Reset

vars == <<cmds, commandPool, rd, held, nReads, nReleases, call, writer>>

Readers == DOMAIN rd

TypedOps == {"ReadSimpleString", "ReadError", "ReadInteger", "ReadString",
             "ReadArray"}

\* a Put that is done twice
Put_twice(pool, p) == pool (+) SetToBag({p}) (+) SetToBag({p})

\* sync.Pool.Put
Put(pool, p) == pool (+) SetToBag({p})

\* a newCommand that does not reset the Command it got from the pool
newCommand_noReset(pool, cs) ==
    IF BagToSet(pool) # {}
    THEN {[p |-> p, pool |-> pool (-) SetToBag({p}), cmds |-> cs] :
             p \in BagToSet(pool)}
    ELSE {[p |-> Len(cs) + 1, pool |-> pool, cmds |-> Append(cs, allocCommand)]}

\* a pool whose Get leaves the Command it returns in the pool
Get_keepsInPool(pool) == {[p |-> p, pool |-> pool] : p \in BagToSet(pool)}

\* sync.Pool.Get: the outcomes [p, pool], none when the pool is empty
Get(pool) ==
    {[p |-> p, pool |-> pool (-) SetToBag({p})] : p \in BagToSet(pool)}

\* newCommand: the outcomes [p, pool, cmds] of commandPool.Get followed by
\* reset, or by an allocation when Get returns nothing.  Get returns any of
\* the Commands in the pool, and nothing when the pool is empty.  (A sync.Pool
\* may also forget a Command put into it; the Reader then allocates, as it
\* does on an empty pool.  The model keeps every Command that was put.)
newCommand(pool, cs) ==
    IF Get(pool) # {}
    THEN {[p |-> g.p, pool |-> g.pool,
           cmds |-> [cs EXCEPT ![g.p] = reset(cs[g.p])]] : g \in Get(pool)}
    ELSE {[p |-> Len(cs) + 1, pool |-> pool, cmds |-> Append(cs, allocCommand)]}

\* Number of bytes the Reader has taken from its bufio.Reader.
Consumed(R) == Len(R.input) - Len(R.buf) - Len(R.src)

\* no call of a Writer: the name of the method, its string arguments and its
\* number
noWrite == [name |-> "none", s |-> << >>, t |-> << >>, i |-> 0]

\* a Writer on a bytes.Buffer on which nothing was called
noWriter ==
    [w |-> NewWriter(bytesBuffer), prev |-> NewWriter(bytesBuffer),
     last |-> noWrite, issued |-> << >>, n |-> 0]

\* no function is called on its own
noCall == [fn |-> "none", arg |-> << >>, done |-> FALSE,
           ret |-> [n |-> 0, err |-> nil]]

\* A caller reads its source to the end: one call for each item of the source
\* and one more, which finds the source drained.
MaxCalls(R) == Len(R.items) + 1

noResult == [op |-> "none", cmd |-> 0, err |-> nil, n |-> 0,
             s |-> << >>, msg |-> << >>, null |-> FALSE]

\* a caller calls ReadCommand or a typed read: the first statement of each
\* is cmd := newCommand()
Call(r, op) ==
    /\ rd[r].pc = "idle"
    /\ rd[r].calls < MaxCalls(rd[r])
    /\ op \in rd[r].ops
    /\ op \in TypedOps => rd[r].typed < MaxTyped
    /\ \E o \in newCommand(commandPool, cmds) :
         /\ commandPool' = o.pool
         /\ cmds' = o.cmds
         /\ rd' = [rd EXCEPT ![r].pc = IF op = "ReadCommand" THEN "header" ELSE "typed",
                             ![r].op = op,
                             ![r].cmd = o.p,
                             ![r].err = nil,
                             ![r].calls = @ + 1,
                             ![r].typed = IF op \in TypedOps THEN @ + 1 ELSE @,
                             ![r].from = Consumed(rd[r])]
    /\ UNCHANGED <<held, nReads, nReleases, call, writer>>

\* cmd.Args = append(cmd.Args, make([]Arg, diff)...)[:len(cmd.Args)]
growArgs(c, arrayLength) ==
    LET diff == arrayLength - c.argsCap
    IN  IF diff > 0 /\ Len(c.args) + diff > c.argsCap
        THEN [c EXCEPT !.argsCap = appendCap(c.argsCap, Len(c.args) + diff)]
        ELSE c

\* cmd.Args = append(cmd.Args, arg)
appendArg(c, arg) ==
    [c EXCEPT !.args = Append(c.args, arg),
              !.argsCap = IF Len(c.args) + 1 > c.argsCap
                          THEN appendCap(c.argsCap, Len(c.args) + 1)
                          ELSE c.argsCap]

\* only a negative length taken for an empty command
isEmptyCommand_negative(arrayLength) == arrayLength < 0

\* if arrayLength <= 0 { cmd.reset(); goto next }
isEmptyCommand(arrayLength) == arrayLength <= 0

\* ReadCommand from the label next to the element loop: one array header
ReadCommandHeader(r) ==
    /\ rd[r].pc = "header"
    /\ \E v \in {readValue(DataTypeArray, rd[r], cmds[rd[r].cmd])} :
           IF v.err # nil
           THEN /\ rd' = [rd EXCEPT ![r] = [v.R EXCEPT
                            !.pc = "ret",
                            !.err = IF v.err = errValue THEN ErrMultibulkLength
                                    ELSE v.err]]
                /\ cmds' = [cmds EXCEPT ![rd[r].cmd] = v.c]
           ELSE IF isEmptyCommand(v.n)
           THEN \* Skip empty commands and read the next one.
                /\ rd' = [rd EXCEPT ![r] = v.R]
                /\ cmds' = [cmds EXCEPT ![rd[r].cmd] = reset(v.c)]
           ELSE /\ rd' = [rd EXCEPT ![r] = [v.R EXCEPT
                            !.pc = IF 0 < v.n THEN "bulk" ELSE "ret",
                            !.arrayLength = v.n, !.i = 0]]
                /\ cmds' = [cmds EXCEPT ![rd[r].cmd] = growArgs(v.c, v.n)]
    /\ UNCHANGED <<commandPool, held, nReads, nReleases, call, writer>>

\* ReadCommand, one turn of the element loop
ReadCommandBulk(r) ==
    /\ rd[r].pc = "bulk"
    /\ \E b \in {readBulk(rd[r], cmds[rd[r].cmd])} :
           IF b.err # nil \/ b.null
           THEN /\ rd' = [rd EXCEPT ![r] = [b.R EXCEPT
                            !.pc = "ret",
                            !.err = IF b.err # nil THEN b.err ELSE ErrBulkLength]]
                /\ cmds' = [cmds EXCEPT ![rd[r].cmd] = b.c]
           ELSE /\ rd' = [rd EXCEPT ![r] = [b.R EXCEPT
                            !.pc = IF rd[r].i + 1 < rd[r].arrayLength
                                   THEN "bulk" ELSE "ret",
                            !.i = @ + 1]]
                /\ cmds' = [cmds EXCEPT ![rd[r].cmd] = appendArg(b.c, b.bulk)]
    /\ UNCHANGED <<commandPool, held, nReads, nReleases, call, writer>>

\* a deferred function that puts the Command back on every return
putsBack_always(err) == TRUE

\* defer func() { if err != nil { commandPool.Put(cmd); cmd = nil } }()
putsBack(err) == err # nil

\* ReadCommand returns: the deferred function, then the caller has the result
ReadCommandReturn(r) ==
    /\ rd[r].pc = "ret"
    /\ IF rd[r].err = ErrPanic
       THEN \* the panic passes the deferred function with err = nil
            /\ rd' = [rd EXCEPT ![r].pc = "panic"]
            /\ UNCHANGED <<commandPool, held, nReads>>
       ELSE IF rd[r].err # nil
       THEN /\ commandPool' = IF putsBack(rd[r].err)
                              THEN Put(commandPool, rd[r].cmd) ELSE commandPool
            /\ rd' = [rd EXCEPT ![r].pc = "idle", ![r].cmd = 0,
                        ![r].ret = [noResult EXCEPT !.op = "ReadCommand",
                                                    !.err = rd[r].err],
                        ![r].out = Append(@, [op |-> "ReadCommand", p |-> 0,
                                              err |-> rd[r].err, raw |-> << >>,
                                              args |-> << >>,
                                              from |-> rd[r].from,
                                              to |-> Consumed(rd[r]),
                                              cmd |-> rd[r].cmd])]
            /\ UNCHANGED <<held, nReads>>
       ELSE /\ rd' = [rd EXCEPT ![r].pc = "idle", ![r].cmd = 0,
                        ![r].ret = [noResult EXCEPT !.op = "ReadCommand",
                                                    !.cmd = rd[r].cmd],
                        ![r].out = Append(@, [op |-> "ReadCommand",
                                              p |-> rd[r].cmd, err |-> nil,
                                              raw |-> Raw(cmds[rd[r].cmd]),
                                              args |-> Args(cmds[rd[r].cmd]),
                                              from |-> rd[r].from,
                                              to |-> Consumed(rd[r]),
                                              cmd |-> rd[r].cmd])]
            /\ held' = held \cup {rd[r].cmd}
            /\ nReads' = nReads + 1
            /\ commandPool' = IF putsBack(rd[r].err)
                              THEN Put(commandPool, rd[r].cmd) ELSE commandPool
    /\ UNCHANGED <<cmds, nReleases, call, writer>>

\* a search for the first space only
RECURSIVE spacePosFrom_spaceOnly(_, _)
spacePosFrom_spaceOnly(line, i) ==
    IF i > Len(line) THEN -1
    ELSE IF line[i] = Space THEN i - 1
    ELSE spacePosFrom_spaceOnly(line, i + 1)

\* for i, ch := range line { if ch == ' ' || ch == '\n' { spacePos = i; break } }
RECURSIVE spacePosFrom(_, _)
spacePosFrom(line, i) ==
    IF i > Len(line) THEN -1
    ELSE IF line[i] = Space \/ line[i] = LF THEN i - 1
    ELSE spacePosFrom(line, i + 1)

\* The bodies of the typed reads: [ret, R, c]
ReadSimpleString(R, c) ==
    Let(readLine(DataTypeSimpleString, 0, R, c), LAMBDA l :
        [ret |-> [noResult EXCEPT !.op = "ReadSimpleString", !.err = l.err,
                    !.s = IF l.err = nil THEN View(l.c, l.line) ELSE << >>],
         R |-> l.R, c |-> l.c])

ReadError(R, c) ==
    Let(readLine(DataTypeError, 0, R, c), LAMBDA l :
        LET line == View(l.c, l.line)
            spacePos == spacePosFrom(line, 1)
        IN  [ret |-> IF l.err # nil
                     THEN [noResult EXCEPT !.op = "ReadError", !.err = l.err]
                     ELSE IF spacePos = -1
                     THEN [noResult EXCEPT !.op = "ReadError", !.s = line]
                     ELSE [noResult EXCEPT !.op = "ReadError",
                             !.s = Take(line, spacePos),
                             !.msg = Drop(line, spacePos + 1)],
             R |-> l.R, c |-> l.c])

ReadInteger(R, c) ==
    Let(readValue(DataTypeInteger, R, c), LAMBDA v :
        [ret |-> [noResult EXCEPT !.op = "ReadInteger", !.n = v.n,
                    !.err = IF v.err = errValue THEN ErrIntegerValue ELSE v.err],
         R |-> v.R, c |-> v.c])

ReadString(R, c) ==
    Let(readBulk(R, c), LAMBDA b :
        [ret |-> [noResult EXCEPT !.op = "ReadString", !.err = b.err,
                    !.null = b.null,
                    !.s = IF b.err = nil /\ ~b.null THEN View(b.c, b.bulk)
                          ELSE << >>],
         R |-> b.R, c |-> b.c])

\* a ReadArray that returns 0 for the length of a null array
ReadArray_nullAsZero(R, c) ==
    Let(readValue(DataTypeArray, R, c), LAMBDA v :
        [ret |-> [noResult EXCEPT !.op = "ReadArray",
                    !.n = IF v.n < 0 THEN 0 ELSE v.n,
                    !.err = IF v.err = errValue THEN ErrMultibulkLength ELSE v.err],
         R |-> v.R, c |-> v.c])

ReadArray(R, c) ==
    Let(readValue(DataTypeArray, R, c), LAMBDA v :
        [ret |-> [noResult EXCEPT !.op = "ReadArray", !.n = v.n,
                    !.err = IF v.err = errValue THEN ErrMultibulkLength ELSE v.err],
         R |-> v.R, c |-> v.c])

\* a typed read after its newCommand: its body, then the deferred
\* commandPool.Put(cmd)
TypedRead(r) ==
    /\ rd[r].pc = "typed"
    /\ \E R \in {rd[r]} : \E c \in {cmds[R.cmd]} :
       \E x \in {CASE R.op = "ReadSimpleString" -> ReadSimpleString(R, c)
                  [] R.op = "ReadError" -> ReadError(R, c)
                  [] R.op = "ReadInteger" -> ReadInteger(R, c)
                  [] R.op = "ReadString" -> ReadString(R, c)
                  [] OTHER -> ReadArray(R, c)} :
           /\ rd' = [rd EXCEPT ![r] = [x.R EXCEPT
                        !.pc = IF x.ret.err = ErrPanic THEN "panic" ELSE "idle",
                        !.cmd = 0,
                        !.ret = x.ret,
                        !.out = Append(@, [op |-> R.op, p |-> 0,
                                           err |-> x.ret.err, raw |-> << >>,
                                           args |-> << >>, from |-> R.from,
                                           to |-> Consumed(x.R),
                                           cmd |-> R.cmd])]]
           /\ cmds' = [cmds EXCEPT ![R.cmd] = x.c]
           /\ commandPool' = Put(commandPool, R.cmd)
    /\ UNCHANGED <<held, nReads, nReleases, call, writer>>

\* bufio.Reader.ReadByte: [ch, err, R]
ReadByte(R) ==
    IF R.buf # << >>
    THEN [ch |-> R.buf[1], err |-> nil, R |-> [R EXCEPT !.buf = Tail(R.buf)]]
    ELSE IF R.src = << >>
    THEN [ch |-> 0, err |-> R.fail, R |-> R]
    ELSE Let(fill(R), LAMBDA F :
             [ch |-> F.buf[1], err |-> nil, R |-> [F EXCEPT !.buf = Tail(F.buf)]])

\* an UnreadByte that puts nothing back
UnreadByte_noop(R, ch) == R

\* an UnreadByte that succeeds only when bytes are left in the buffer
UnreadByte_needsBuffered(R, ch) ==
    IF R.buf = << >> THEN R ELSE [R EXCEPT !.buf = <<ch>> \o R.buf]

\* bufio.Reader.UnreadByte after a ReadByte that returned ch
UnreadByte(R, ch) == [R EXCEPT !.buf = <<ch>> \o R.buf]

\* Two lower-case hexadecimal digits of a byte.
HexDigit(d) == IF d < 10 THEN Zero + d ELSE LetterA + (d - 10)
Hex2(ch) == <<HexDigit(ch \div 16), HexDigit(ch % 16)>>

\* fmt.Sprintf("%q", string(dt)) for an ASCII byte: strconv.Quote
Quote(ch) ==
    LET named == [c \in 7..13 |->
                     <<LetterA, LetterB, LetterT, LetterN, LetterV, LetterF,
                       LetterR>>[c - 6]]
    IN  <<DoubleQuote>> \o
        (IF ch = DoubleQuote \/ ch = Backslash THEN <<Backslash, ch>>
         ELSE IF ch \in 7..13 THEN <<Backslash, named[ch]>>
         ELSE IF ch < Space \/ ch = Delete THEN <<Backslash, LetterX>> \o Hex2(ch)
         ELSE <<ch>>)
        \o <<DoubleQuote>>

\* a reply type error that names the byte without quoting it
ErrReplyType_unquoted(ch) == [k |-> "replytype", x |-> ch, q |-> <<ch>>]

\* &Error{"ERR", fmt.Sprintf("Protocol error, got %q as reply type byte",
\* string(dt))}: x is the byte, q the text put in the place of %q
ErrReplyType(ch) == [k |-> "replytype", x |-> ch, q |-> Quote(ch)]

\* The values ReadAny returns as v: nil, a string, an *Error (nil when
\* ReadError failed), an int.
nilValue == [t |-> "nil", s |-> << >>, msg |-> << >>, n |-> 0]
stringValue(str) == [nilValue EXCEPT !.t = "string", !.s = str]
errorValue(kind, msg) == [nilValue EXCEPT !.t = "error", !.s = kind, !.msg = msg]
nilErrorValue == [nilValue EXCEPT !.t = "nilError"]
intValue(n) == [nilValue EXCEPT !.t = "int", !.n = n]

\* The typed read ReadAny calls for a first byte.
TypedOpOf(dt) ==
    CASE dt = DataTypeSimpleString -> "ReadSimpleString"
      [] dt = DataTypeError -> "ReadError"
      [] dt = DataTypeInteger -> "ReadInteger"
      [] dt = DataTypeBulkString -> "ReadString"
      [] dt = DataTypeArray -> "ReadArray"
      [] OTHER -> "none"

\* a dispatch that leaves the type of a null bulk string as it is
anyResult_keepsBulkType(dt, ret) ==
    CASE ret.op = "ReadSimpleString" ->
             [dt |-> dt, v |-> stringValue(ret.s), err |-> ret.err]
      [] ret.op = "ReadError" ->
             [dt |-> dt, err |-> ret.err,
              v |-> IF ret.err # nil THEN nilErrorValue
                    ELSE errorValue(ret.s, ret.msg)]
      [] ret.op = "ReadString" ->
             [dt |-> dt, v |-> stringValue(ret.s), err |-> ret.err]
      [] OTHER -> [dt |-> dt, v |-> intValue(ret.n), err |-> ret.err]

\* The switch of ReadAny: (dt, v, err) from the results of the typed read.
anyResult(dt, ret) ==
    CASE ret.op = "ReadSimpleString" ->
             [dt |-> dt, v |-> stringValue(ret.s), err |-> ret.err]
      [] ret.op = "ReadError" ->
             [dt |-> dt, err |-> ret.err,
              v |-> IF ret.err # nil THEN nilErrorValue
                    ELSE errorValue(ret.s, ret.msg)]
      [] ret.op = "ReadString" ->
             IF ret.null
             THEN [dt |-> DataTypeNull, v |-> nilValue, err |-> ret.err]
             ELSE [dt |-> dt, v |-> stringValue(ret.s), err |-> ret.err]
      [] OTHER -> [dt |-> dt, v |-> intValue(ret.n), err |-> ret.err]

\* The body of the typed read op on R with the Command c: [ret, R, c]
typedBody(op, R, c) ==
    CASE op = "ReadSimpleString" -> ReadSimpleString(R, c)
      [] op = "ReadError" -> ReadError(R, c)
      [] op = "ReadInteger" -> ReadInteger(R, c)
      [] op = "ReadString" -> ReadString(R, c)
      [] OTHER -> ReadArray(R, c)

\* The caller has the results of a ReadAny that began at offset from.
anyReturns(R, from, p, res) ==
    [R EXCEPT !.pc = IF res.err = ErrPanic THEN "panic" ELSE "idle",
              !.calls = @ + 1,
              !.from = from,
              !.out = Append(@, [op |-> "ReadAny", p |-> 0, err |-> res.err,
                                 raw |-> << >>, args |-> << >>,
                                 from |-> from, to |-> Consumed(R),
                                 cmd |-> p, dt |-> res.dt, v |-> res.v])]

\* ReadAny: the first byte is read and unread, then the typed read of that
\* byte runs from its newCommand to its deferred commandPool.Put.
ReadAny(r) ==
    /\ rd[r].pc = "idle"
    /\ rd[r].calls < MaxCalls(rd[r])
    /\ "ReadAny" \in rd[r].ops
    /\ \E from \in {Consumed(rd[r])} : \E b \in {ReadByte(rd[r])} :
         IF b.err # nil
         THEN /\ rd' = [rd EXCEPT ![r] = anyReturns(b.R, from, 0,
                           [dt |-> DataTypeNull, v |-> nilValue, err |-> b.err])]
              /\ UNCHANGED <<cmds, commandPool>>
         ELSE \E R \in {UnreadByte(b.R, b.ch)} :
              IF TypedOpOf(b.ch) = "none"
              THEN /\ rd' = [rd EXCEPT ![r] = anyReturns(R, from, 0,
                                [dt |-> DataTypeNull, v |-> nilValue,
                                 err |-> ErrReplyType(b.ch)])]
                   /\ UNCHANGED <<cmds, commandPool>>
              ELSE \E o \in newCommand(commandPool, cmds) :
                   \E x \in {typedBody(TypedOpOf(b.ch), R, o.cmds[o.p])} :
                   \E res \in {anyResult(b.ch, x.ret)} :
                       /\ rd' = [rd EXCEPT ![r] = anyReturns(x.R, from, o.p, res)]
                       /\ cmds' = [o.cmds EXCEPT ![o.p] = x.c]
                       /\ commandPool' = Put(o.pool, o.p)
    /\ UNCHANGED <<held, nReads, nReleases, call, writer>>

\* the caller of Reader r, between two calls, is done with a Command that a
\* ReadCommand gave it: commandPool.Put(cmd)
Release(r, p) ==
    /\ rd[r].pc = "idle"
    /\ p \in held
    /\ \E k \in 1..Len(rd[r].out) : rd[r].out[k].p = p
    /\ commandPool' = Put(commandPool, p)
    /\ held' = held \ {p}
    /\ nReleases' = nReleases + 1
    /\ UNCHANGED <<cmds, rd, nReads, call, writer>>

----------------------------------------------------------------------------
(* Sources.  A source is a concatenation of items; an item is a command as *)
(* the Writer produces it (kind "cmd"), an array header of length <= 0      *)
(* (kind "skip"), or a piece the Reader must refuse (kind "bad").           *)

Item(kind, bytes, args) == [kind |-> kind, bytes |-> bytes, args |-> args]

CmdItem(args) == Item("cmd", buildRawCommand(args), args)

LongArg == <<LetterA, LetterB, CR, LF, LetterA, LetterB,
             LetterA, LetterB, LetterA, LetterB, LetterA, LetterB, LetterA>>

\* A one-argument command, and a command of more arguments than a new Command
\* has room for, the last of them longer than the buffers.
CmdItems ==
    { CmdItem(<<<<LetterA>>>>),
      CmdItem(<<<<CR, LF>>, << >>, << >>, << >>, LongArg>>) }

\* "*-1\r\n*0\r\n": two array headers in a row, neither of a positive length
SkipItems ==
    { Item("skip", <<DataTypeArray, Minus, Zero + 1, CR, LF,
                     DataTypeArray, Zero, CR, LF>>, << >>) }

\* "*00001\r\n$1\r\na\r\n": a command whose header line is longer than maxLength
LongHeaderItem ==
    Item("longheader",
         <<DataTypeArray, Zero, Zero, Zero, Zero, Zero + 1, CR, LF,
           DataTypeBulkString, Zero + 1, CR, LF, LetterA, CR, LF>>,
         <<<<LetterA>>>>)

BadItems ==
    { \* "*a\r\n"
      Item("bad", <<DataTypeArray, LetterA, CR, LF>>, << >>),
      \* "+a\r\n"
      Item("bad", <<DataTypeSimpleString, LetterA, CR, LF>>, << >>),
      \* "*1\r\n$-1\r\n"
      Item("bad", <<DataTypeArray, Zero + 1, CR, LF,
                    DataTypeBulkString, Minus, Zero + 1, CR, LF>>, << >>),
      \* "*1\r\n$1\r\nab\r\n"
      Item("bad", <<DataTypeArray, Zero + 1, CR, LF,
                    DataTypeBulkString, Zero + 1, CR, LF,
                    LetterA, LetterB, CR, LF>>, << >>) }

\* Pieces that end before their command does: the source ends there.
TruncItems ==
    { \* "*1\r\n$3\r\na": the source ends inside the bulk
      Item("trunc", <<DataTypeArray, Zero + 1, CR, LF,
                      DataTypeBulkString, Zero + 3, CR, LF, LetterA>>, << >>),
      \* "*000000000": no end of line
      Item("trunc", <<DataTypeArray, Zero, Zero, Zero, Zero, Zero, Zero, Zero,
                      Zero, Zero, Zero>>, << >>) }

\* Sources of well-formed commands and empty arrays.
GoodItems == CmdItems \cup SkipItems

\* Sources with pieces the Reader refuses.
FaultyItems ==
    {CmdItem(<<<<LetterA>>>>), LongHeaderItem} \cup BadItems \cup TruncItems

ItemSeqs(menu, n) ==
    {s \in UNION {[1..k -> menu] : k \in 0..n} :
        \A j \in 1..(Len(s) - 1) : s[j].kind # "trunc"}

RECURSIVE ItemBytes(_)
ItemBytes(items) ==
    IF items = << >> THEN << >> ELSE Head(items).bytes \o ItemBytes(Tail(items))

ChunkSizes == {1, BufSize}

\* NewReader(rd) on a source holding the bytes of items, for a caller that
\* calls the reads in ops
NewReader(items, chunk, fail, ops) ==
    [buf |-> << >>, src |-> ItemBytes(items), chunk |-> chunk, fail |-> fail,
     pc |-> "idle", op |-> "none", cmd |-> 0, err |-> nil,
     arrayLength |-> 0, i |-> 0, ret |-> noResult,
     items |-> items, input |-> ItemBytes(items),
     calls |-> 0, typed |-> 0, from |-> 0, out |-> << >>, ops |-> ops,
     reset |-> [n |-> 0, base |-> 0, dropped |-> << >>]]

\* a Reset that keeps the bytes buffered from the source it leaves
ReaderReset_keepsBuffer(R, items, chunk, fail) ==
    [R EXCEPT !.src = ItemBytes(items), !.chunk = chunk,
              !.fail = fail, !.items = items, !.input = ItemBytes(items),
              !.calls = 0, !.from = 0,
              !.reset = [n |-> @.n + 1, base |-> Len(R.out),
                         dropped |-> R.buf]]

\* Reader.Reset(rd), bufio.Reader.Reset: the buffered bytes are discarded and
\* the Reader reads from rd, a source holding the bytes of items, from now
\* on.  reset keeps the number of Resets, the number of reads that had
\* returned before the last one (base) and the bytes it discarded.
ReaderReset(R, items, chunk, fail) ==
    [R EXCEPT !.buf = << >>, !.src = ItemBytes(items), !.chunk = chunk,
              !.fail = fail, !.items = items, !.input = ItemBytes(items),
              !.calls = 0, !.from = 0,
              !.reset = [n |-> @.n + 1, base |-> Len(R.out),
                         dropped |-> R.buf]]

InitWith(RS, sources, chunks, fails, ops) ==
    /\ cmds = << >>
    /\ commandPool = EmptyBag
    /\ held = {}
    /\ nReads = 0
    /\ nReleases = 0
    /\ call = noCall
    /\ writer = noWriter
    /\ rd \in [RS -> {NewReader(items, chunk, fail, ops) :
                         items \in sources,
                         chunk \in chunks,
                         fail \in fails}]

\* One Reader on a source of well-formed commands that ends with io.EOF.
AllOps == {"ReadCommand"} \cup TypedOps

Init ==
    InitWith({1}, ItemSeqs(GoodItems, MaxItems), ChunkSizes, {EOF}, AllOps)

\* Pieces of the sources that end with a transport error.
BrokenItems == {CmdItem(<<<<LetterA>>>>)} \cup TruncItems

\* One Reader on a source with faulty pieces that ends with io.EOF, or on a
\* source that ends with a transport error.
InitFaulty ==
    \/ InitWith({1}, ItemSeqs(FaultyItems, MaxItems), {BufSize}, {EOF}, AllOps)
    \/ InitWith({1}, ItemSeqs(BrokenItems, MaxItems), {BufSize},
                {ErrTransport}, AllOps)

Next ==
    \/ \E r \in Readers : Call(r, "ReadCommand")
    \/ \E r \in Readers, op \in TypedOps : Call(r, op)
    \/ \E r \in Readers : ReadCommandHeader(r)
    \/ \E r \in Readers : ReadCommandBulk(r)
    \/ \E r \in Readers : ReadCommandReturn(r)
    \/ \E r \in Readers : TypedRead(r)
    \/ \E r \in Readers, p \in held : Release(r, p)

Spec == Init /\ [][Next]_vars

SpecFaulty == InitFaulty /\ [][Next]_vars

\* NumReaders Readers, each on a source of its own that holds one command,
\* run by as many goroutines and share commandPool; their callers call
\* ReadCommand and ReadArray, and keep the Commands they get.
InitConcurrent ==
    InitWith(1..NumReaders, {<<CmdItem(<<<<LetterA>>>>)>>}, {BufSize}, {EOF},
             {"ReadCommand", "ReadArray"})

NextConcurrent ==
    \/ \E r \in Readers : Call(r, "ReadCommand")
    \/ \E r \in Readers, op \in TypedOps : Call(r, op)
    \/ \E r \in Readers : ReadCommandHeader(r)
    \/ \E r \in Readers : ReadCommandBulk(r)
    \/ \E r \in Readers : ReadCommandReturn(r)
    \/ \E r \in Readers : TypedRead(r)

SpecConcurrent == InitConcurrent /\ [][NextConcurrent]_vars

----------------------------------------------------------------------------
(* Sources of one line.  The source holds a line: a first byte, a payload   *)
(* and CR LF, alone or as the first element of a command of one element,    *)
(* and after the line the bytes of a tail.                                  *)

PayloadBytes == {Minus, Zero + 1, LetterA, LF}

Payloads == UNION {[1..k -> PayloadBytes] : k \in 0..MaxPayload}

\* a payload that does not fit the buffer of the bufio.Reader
LongPayload == [i \in 1..BufSize |-> LetterA]

FirstBytes ==
    {DataTypeSimpleString, DataTypeError, DataTypeInteger, DataTypeBulkString,
     DataTypeArray, LetterA}

\* "*1\r\n"
OneElementHeader == <<DataTypeArray, Zero + 1, CR, LF>>

LinePrefixes == {<< >>, OneElementHeader}

\* "a\r\n", "\r\n", "ab\r\n"
LineTails == {<<LetterA, CR, LF>>, <<CR, LF>>, <<LetterA, LetterB, CR, LF>>}

LineItem(prefix, first, payload, tail) ==
    [kind |-> "line",
     bytes |-> prefix \o <<first>> \o payload \o <<CR, LF>> \o tail,
     args |-> << >>,
     prefix |-> prefix, first |-> first, payload |-> payload, tail |-> tail]

LineItems ==
    {LineItem(prefix, first, payload, tail) :
        prefix \in LinePrefixes, first \in FirstBytes,
        payload \in Payloads \cup {LongPayload}, tail \in LineTails}

\* One Reader on a source of one line that ends with io.EOF.
InitLines ==
    InitWith({1}, {<<it>> : it \in LineItems}, {BufSize}, {EOF}, AllOps)

SpecLines == InitLines /\ [][Next]_vars

----------------------------------------------------------------------------
(* Sources of frames for ReadAny.  A frame is held with the data type and   *)
(* the value it stands for.                                                 *)

AnyFrame(bytes, dt, v) ==
    [kind |-> "frame", bytes |-> bytes, args |-> << >>, dt |-> dt, v |-> v]

WellFormedFrames ==
    { \* "+a\r\n"
      AnyFrame(<<DataTypeSimpleString, LetterA, CR, LF>>,
               DataTypeSimpleString, stringValue(<<LetterA>>)),
      \* "+\r\n"
      AnyFrame(<<DataTypeSimpleString, CR, LF>>,
               DataTypeSimpleString, stringValue(<< >>)),
      \* "+a\n \r\r\n"
      AnyFrame(<<DataTypeSimpleString, LetterA, LF, Space, CR, CR, LF>>,
               DataTypeSimpleString, stringValue(<<LetterA, LF, Space, CR>>)),
      \* "-a b\r\n"
      AnyFrame(<<DataTypeError, LetterA, Space, LetterB, CR, LF>>,
               DataTypeError, errorValue(<<LetterA>>, <<LetterB>>)),
      \* ":1\r\n"
      AnyFrame(<<DataTypeInteger, Zero + 1, CR, LF>>,
               DataTypeInteger, intValue(1)),
      \* ":-11\r\n"
      AnyFrame(<<DataTypeInteger, Minus, Zero + 1, Zero + 1, CR, LF>>,
               DataTypeInteger, intValue(-11)),
      \* "$1\r\na\r\n"
      AnyFrame(<<DataTypeBulkString, Zero + 1, CR, LF, LetterA, CR, LF>>,
               DataTypeBulkString, stringValue(<<LetterA>>)),
      \* "$0\r\n\r\n"
      AnyFrame(<<DataTypeBulkString, Zero, CR, LF, CR, LF>>,
               DataTypeBulkString, stringValue(<< >>)),
      \* "$-1\r\n"
      AnyFrame(<<DataTypeBulkString, Minus, Zero + 1, CR, LF>>,
               DataTypeNull, nilValue),
      \* "$-11\r\n"
      AnyFrame(<<DataTypeBulkString, Minus, Zero + 1, Zero + 1, CR, LF>>,
               DataTypeNull, nilValue),
      \* a bulk string longer than the buffers, with CR LF inside
      AnyFrame(<<DataTypeBulkString>> \o Itoa(Len(LongArg)) \o <<CR, LF>>
                   \o LongArg \o <<CR, LF>>,
               DataTypeBulkString, stringValue(LongArg)),
      \* "*2\r\n"
      AnyFrame(<<DataTypeArray, Zero + 2, CR, LF>>, DataTypeArray, intValue(2)),
      \* "*0\r\n"
      AnyFrame(<<DataTypeArray, Zero, CR, LF>>, DataTypeArray, intValue(0)),
      \* "*-1\r\n"
      AnyFrame(<<DataTypeArray, Minus, Zero + 1, CR, LF>>,
               DataTypeArray, intValue(-1)) }

\* First bytes that are no reply type: '_', CR, '"' and the byte 1.
UnknownTypeBytes == {DataTypeNull, CR, DoubleQuote, StartOfHeading}

\* A line that starts with a byte that is no reply type.
UnknownFrames ==
    {[kind |-> "unknown", bytes |-> <<ch, CR, LF>>, args |-> << >>,
      dt |-> ch, v |-> nilValue] : ch \in UnknownTypeBytes}

ErrorPayloadBytes == {LetterA, Space, CR, LF}

\* The payloads of error lines: no CR LF inside, where the line would end.
ErrorPayloads ==
    {p \in UNION {[1..k -> ErrorPayloadBytes] : k \in 0..(MaxPayload + 1)} :
        \A i \in 1..(Len(p) - 1) : ~(p[i] = CR /\ p[i + 1] = LF)}

\* Place of the first space or LF of a payload, 0 when it has none.
RECURSIVE FirstSplit(_, _)
FirstSplit(p, i) ==
    IF i > Len(p) THEN 0
    ELSE IF p[i] \in {Space, LF} THEN i
    ELSE FirstSplit(p, i + 1)

\* The kind and the msg an error line of payload p stands for.
KindOf(p) == IF FirstSplit(p, 1) = 0 THEN p ELSE SubSeq(p, 1, FirstSplit(p, 1) - 1)
MsgOf(p) ==
    IF FirstSplit(p, 1) = 0 THEN << >> ELSE SubSeq(p, FirstSplit(p, 1) + 1, Len(p))

ErrorFrames ==
    {[kind |-> "frame",
      bytes |-> <<DataTypeError>> \o p \o <<CR, LF>>, args |-> << >>,
      dt |-> DataTypeError, v |-> errorValue(KindOf(p), MsgOf(p)),
      payload |-> p] : p \in ErrorPayloads}

\* Sources of up to MaxItems frames, and sources of one error line.
AnySources ==
    ItemSeqs(WellFormedFrames \cup UnknownFrames, MaxItems)
        \cup {<<f>> : f \in ErrorFrames}

\* One Reader on a source of frames, for a caller that calls ReadAny.
InitAny == InitWith({1}, AnySources, ChunkSizes, {EOF}, {"ReadAny"})

NextAny == \E r \in Readers : ReadAny(r)

SpecAny == InitAny /\ [][NextAny]_vars

----------------------------------------------------------------------------
(* parseInt on its own: a payload, and the call of parseInt on it.          *)

\* '-', the digits 0, 1 and 9, the bytes next to the digits ('/' and ':'),
\* and a letter
ParseBytes == {Minus, Zero, Zero + 1, Zero + 9, Zero - 1, Zero + 10, LetterA}

ParseInputs == UNION {[1..k -> ParseBytes] : k \in 0..(MaxPayload + 1)}

InitParseInt ==
    /\ cmds = << >>
    /\ commandPool = EmptyBag
    /\ rd = << >>
    /\ held = {}
    /\ nReads = 0
    /\ nReleases = 0
    /\ call \in {[noCall EXCEPT !.fn = "parseInt", !.arg = b] : b \in ParseInputs}
    /\ writer = noWriter

\* n, err := parseInt(b)
CallParseInt ==
    /\ call.fn = "parseInt"
    /\ ~call.done
    /\ \E x \in {parseInt(call.arg)} :
           call' = [call EXCEPT !.done = TRUE, !.ret = x]
    /\ UNCHANGED <<cmds, commandPool, rd, held, nReads, nReleases,
                   writer>>

NextParseInt == CallParseInt

SpecParseInt == InitParseInt /\ [][NextParseInt]_vars

----------------------------------------------------------------------------
(* Length lines: one ':' or '*' line whose payload is a run of '0' with an  *)
(* optional sign and last byte, shorter and longer than maxLength and than  *)
(* the buffer of the bufio.Reader.                                          *)

LengthSigns == {<< >>, <<Minus>>}

LengthLasts == {<< >>, <<Zero + 1>>, <<LetterA>>}

LengthPayloads ==
    {sign \o [i \in 1..k |-> Zero] \o last :
        sign \in LengthSigns, k \in 0..(BufSize - 1), last \in LengthLasts}

LengthItems ==
    {LineItem(<< >>, first, payload, << >>) :
        first \in {DataTypeInteger, DataTypeArray}, payload \in LengthPayloads}

\* One Reader on a source of one length line, or of one command, that ends
\* with io.EOF.
InitLengths ==
    InitWith({1}, {<<it>> : it \in LengthItems \cup {CmdItem(<<<<LetterA>>>>)}},
             ChunkSizes, {EOF}, AllOps)

SpecLengths == InitLengths /\ [][Next]_vars

----------------------------------------------------------------------------
(* Round trips: the source holds what a Writer on a bytes.Buffer has        *)
(* written and flushed, one integer or one simple string.                   *)

\* The bytes of WriteInt64(i), Flush.
IntItem(i) ==
    [kind |-> "int",
     bytes |-> Flush(WriteInt64(NewWriter(bytesBuffer), i)).sink,
     args |-> << >>, i |-> i]

IntItems == {IntItem(i) : i \in MinInt..MaxInt}

\* The strings of the round trip: no CR and no LF, shorter and longer than
\* the buffers of the Reader and of the Writer; runs of 'a', and runs of 'a'
\* that end with a space, a backslash or a '+'.
RoundTripLengths == 0..(BufSize + 2)

RoundTripStrings ==
    {[j \in 1..k |-> LetterA] : k \in RoundTripLengths}
        \cup {[j \in 1..k |-> IF j = k THEN b ELSE LetterA] :
                 k \in RoundTripLengths \ {0},
                 b \in {Space, Backslash, DataTypeSimpleString}}

\* The bytes of WriteSimpleString(s), Flush.
StrItem(s) ==
    [kind |-> "str",
     bytes |-> Flush(WriteSimpleString(NewWriter(bytesBuffer), s)).sink,
     args |-> << >>, s |-> s]

StrItems == {StrItem(s) : s \in RoundTripStrings}

\* One Reader on a source of one integer, one simple string or one command,
\* that ends with io.EOF.
InitRoundTrip ==
    InitWith({1},
             {<<it>> : it \in IntItems \cup StrItems
                                \cup {CmdItem(<<<<LetterA>>>>)}},
             ChunkSizes, {EOF}, AllOps)

SpecRoundTrip == InitRoundTrip /\ [][Next]_vars

----------------------------------------------------------------------------
(* A Writer on its own: the calls a caller makes on one Writer.             *)

\* Number of write operations a caller makes on the Writer.
MaxWrites == 2

\* a string longer than the buffer of the bufio.Writer
LongString == [j \in 1..(WBufSize + 1) |-> LetterA]

\* "", "a", "a\rb\n", "\n\r", and the long string
WStrings ==
    {<< >>, <<LetterA>>, <<LetterA, CR, LetterB, LF>>, <<LF, CR>>, LongString}

\* "", "a\rb\n", and the long string
WBulks == {<< >>, <<LetterA, CR, LetterB, LF>>, LongString}

\* "", "E", "E\r"
WKinds == {<< >>, <<UpperE>>, <<UpperE, CR>>}

\* "", "a", "\n a"
WMsgs == {<< >>, <<LetterA>>, <<LF, Space, LetterA>>}

\* the Errors given to WriteError: one with no kind and a plain message,
\* one with a kind to escape and no message
WErrors ==
    {[Kind |-> << >>, Msg |-> <<LetterA>>], [Kind |-> <<UpperE, CR>>, Msg |-> << >>]}

\* the ints: the least and the greatest, the edges of the one-digit numbers
WInts == {MinInt, -1, 0, 9, 10, MaxInt}

\* int32 is narrower than int64: one bit less in the model
MinInt32 == -(2 ^ (IntBits - 2))
MaxInt32 == 2 ^ (IntBits - 2) - 1
WInt32s == {MinInt32, MaxInt32}

\* the unsigned integers: 0 .. 2^64 - 1 in the program
MaxUint == 2 ^ IntBits - 1
WUints == {0, 10, MaxUint}

\* uint32 is narrower than uint64: one bit less in the model
MaxUint32 == 2 ^ (IntBits - 1) - 1
WUint32s == {9, MaxUint32}

\* the lengths given to WriteArray
WLengths == {-1, 0, 10}

\* the io.Writers: one that never fails, and those that fail at once, inside
\* the first buffer, and after it
WSinks ==
    {bytesBuffer, faultyWriter(0), faultyWriter(WBufSize \div 2),
     faultyWriter(WBufSize + 1)}

\* NewWriter(wr)
InitWriter ==
    /\ cmds = << >>
    /\ commandPool = EmptyBag
    /\ rd = << >>
    /\ held = {}
    /\ nReads = 0
    /\ nReleases = 0
    /\ call = noCall
    /\ writer \in {[noWriter EXCEPT !.w = NewWriter(wr), !.prev = NewWriter(wr)] :
                      wr \in WSinks}

\* the caller calls the method op of the Writer, which leaves the Writer w2
WriterCall(op, w2) ==
    /\ writer.n < MaxWrites
    /\ writer' = [w |-> w2, prev |-> writer.w, last |-> op,
                  issued |-> Append(writer.issued, op), n |-> writer.n + 1]
    /\ UNCHANGED <<cmds, commandPool, rd, held, nReads, nReleases, call>>

CallWriteSimpleString ==
    \E s \in WStrings :
        WriterCall([noWrite EXCEPT !.name = "WriteSimpleString", !.s = s],
                   WriteSimpleString(writer.w, s))

CallWriteError ==
    \E e \in WErrors :
        WriterCall([noWrite EXCEPT !.name = "WriteError", !.s = e.Kind,
                                   !.t = e.Msg],
                   WriteError(writer.w, e))

CallWriteRawError ==
    \E kind \in WKinds, msg \in WMsgs :
        WriterCall([noWrite EXCEPT !.name = "WriteRawError", !.s = kind,
                                   !.t = msg],
                   WriteRawError(writer.w, kind, msg))

CallWriteInt ==
    \E i \in {-10, 5} :
        WriterCall([noWrite EXCEPT !.name = "WriteInt", !.i = i],
                   WriteInt(writer.w, i))

CallWriteInt32 ==
    \E i \in WInt32s :
        WriterCall([noWrite EXCEPT !.name = "WriteInt32", !.i = i],
                   WriteInt32(writer.w, i))

CallWriteInt64 ==
    \E i \in WInts :
        WriterCall([noWrite EXCEPT !.name = "WriteInt64", !.i = i],
                   WriteInt64(writer.w, i))

CallWriteUint ==
    \E i \in {9, MaxInt + 1} :
        WriterCall([noWrite EXCEPT !.name = "WriteUint", !.i = i],
                   WriteUint(writer.w, i))

CallWriteUint32 ==
    \E i \in WUint32s :
        WriterCall([noWrite EXCEPT !.name = "WriteUint32", !.i = i],
                   WriteUint32(writer.w, i))

CallWriteUint64 ==
    \E i \in WUints :
        WriterCall([noWrite EXCEPT !.name = "WriteUint64", !.i = i],
                   WriteUint64(writer.w, i))

CallWriteString ==
    \E s \in WBulks :
        WriterCall([noWrite EXCEPT !.name = "WriteString", !.s = s],
                   WriteString(writer.w, s))

CallWriteBytes ==
    \E b \in WBulks :
        WriterCall([noWrite EXCEPT !.name = "WriteBytes", !.s = b],
                   WriteBytes(writer.w, b))

CallWriteNull ==
    WriterCall([noWrite EXCEPT !.name = "WriteNull"], WriteNull(writer.w))

CallWriteArray ==
    \E n \in WLengths :
        WriterCall([noWrite EXCEPT !.name = "WriteArray", !.i = n],
                   WriteArray(writer.w, n))

\* the caller calls Flush
CallFlush ==
    /\ \E w2 \in {Flush(writer.w)} :
           writer' = [writer EXCEPT !.w = w2, !.prev = w2,
                                    !.last = [noWrite EXCEPT !.name = "Flush"]]
    /\ UNCHANGED <<cmds, commandPool, rd, held, nReads, nReleases, call>>

\* the caller calls Reset(wr), wr an io.Writer that has received nothing
\* the io.Writers a Reset binds
ResetSinks == {bytesBuffer, faultyWriter(0)}

CallReset ==
    /\ writer.n < MaxWrites
    /\ \E wr \in ResetSinks : \E w2 \in {Reset(writer.w, wr)} :
           writer' = [writer EXCEPT !.w = w2, !.prev = w2,
                                    !.last = [noWrite EXCEPT !.name = "Reset"],
                                    !.issued = << >>]
    /\ UNCHANGED <<cmds, commandPool, rd, held, nReads, nReleases, call>>

\* the calls that write strings, errors, bulk strings, nulls and array headers
NextWriter ==
    \/ CallWriteSimpleString
    \/ CallWriteError
    \/ CallWriteRawError
    \/ CallWriteString
    \/ CallWriteBytes
    \/ CallWriteNull
    \/ CallWriteArray
    \/ CallFlush
    \/ CallReset

SpecWriter == InitWriter /\ [][NextWriter]_vars

\* the calls that write integers
NextWriterInts ==
    \/ CallWriteInt
    \/ CallWriteInt32
    \/ CallWriteInt64
    \/ CallWriteUint
    \/ CallWriteUint32
    \/ CallWriteUint64
    \/ CallFlush
    \/ CallReset

SpecWriterInts == InitWriter /\ [][NextWriterInts]_vars

----------------------------------------------------------------------------
(* A Reader whose caller rebinds it to another source between two reads.   *)

\* Number of Resets of one Reader.
MaxResets == 1

\* "*1\r\n$1\r\nb\r\n"
CmdB == CmdItem(<<<<LetterB>>>>)

\* The sources a Reset binds: an empty one, and one of a command.
ResetSources == {<< >>, <<CmdB>>}

\* One Reader on a source of commands.
InitReset ==
    InitWith({1}, ItemSeqs({CmdItem(<<<<LetterA>>>>)}, MaxItems),
             ChunkSizes, {EOF}, {"ReadCommand"})

\* the caller calls Reset between two reads
ResetReader(r) ==
    /\ rd[r].pc = "idle"
    /\ rd[r].reset.n < MaxResets
    /\ \E items \in ResetSources :
       \E R2 \in {ReaderReset(rd[r], items, rd[r].chunk, EOF)} :
           rd' = [rd EXCEPT ![r] = R2]
    /\ UNCHANGED <<cmds, commandPool, held, nReads, nReleases, call, writer>>

NextReset ==
    \/ \E r \in Readers : Call(r, "ReadCommand")
    \/ \E r \in Readers : ReadCommandHeader(r)
    \/ \E r \in Readers : ReadCommandBulk(r)
    \/ \E r \in Readers : ReadCommandReturn(r)
    \/ \E r \in Readers, p \in held : Release(r, p)
    \/ \E r \in Readers : ResetReader(r)

SpecReset == InitReset /\ [][NextReset]_vars

----------------------------------------------------------------------------
(* Lines whose CR LF falls at every place of the buffer of the Reader.     *)

\* The payloads: runs of 'a', shorter and longer than the buffer.
EndPayloads == {[j \in 1..k |-> LetterA] : k \in 0..(BufSize + 2)}

\* A simple string or an error, as it is on the wire.
EndLine(dt, payload) ==
    [kind |-> "line", bytes |-> <<dt>> \o payload \o <<CR, LF>>,
     args |-> << >>, s |-> payload]

EndLines ==
    {EndLine(dt, p) : dt \in {DataTypeSimpleString, DataTypeError},
                      p \in EndPayloads}

\* One Reader on a source of one line, which ends there or goes on with a
\* command.
InitLineEnds ==
    InitWith({1},
             {<<l>> \o t : l \in EndLines,
                           t \in {<< >>, <<CmdItem(<<<<LetterA>>>>)>>}},
             ChunkSizes, {EOF}, AllOps)

SpecLineEnds == InitLineEnds /\ [][Next]_vars

----------------------------------------------------------------------------
(* Lines that ReadCommand refuses, each followed by a command.             *)

BadLine(bytes) == Item("badline", bytes, << >>)

\* Lines refused for what they hold; each is one slice of the bufio.Reader.
ShortBadLines ==
    { \* "*a\r\n"
      BadLine(<<DataTypeArray, LetterA, CR, LF>>),
      \* "+a\r\n"
      BadLine(<<DataTypeSimpleString, LetterA, CR, LF>>),
      \* "*1\r\n$-1\r\n"
      BadLine(<<DataTypeArray, Zero + 1, CR, LF,
                DataTypeBulkString, Minus, Zero + 1, CR, LF>>),
      \* "*1\r\n$a\r\n"
      BadLine(<<DataTypeArray, Zero + 1, CR, LF,
                DataTypeBulkString, LetterA, CR, LF>>) }

\* Lines refused for their length: a header of more digits than the buffer
\* holds, a header whose CR is the last byte the buffer holds, and a header
\* of maxLength bytes up to an LF that no CR precedes.
LongBadLines ==
    { BadLine(<<DataTypeArray>> \o [j \in 1..BufSize |-> Zero] \o <<CR, LF>>),
      BadLine(<<DataTypeArray>> \o [j \in 1..(BufSize - 2) |-> LetterA]
                  \o <<CR, LF>>),
      BadLine(<<DataTypeArray>> \o [j \in 1..(maxLength - 2) |-> LetterA]
                  \o <<LF, CR, LF>>) }

\* One Reader on a source of a refused line and a command, after a command
\* or not, for a caller that calls ReadCommand.
InitResync ==
    InitWith({1},
             {h \o <<l, CmdItem(<<<<LetterA>>>>)>> :
                 l \in ShortBadLines \cup LongBadLines,
                 h \in {<< >>, <<CmdItem(<<<<LetterB>>>>)>>}},
             ChunkSizes, {EOF}, {"ReadCommand"})

NextReadCommand ==
    \/ \E r \in Readers : Call(r, "ReadCommand")
    \/ \E r \in Readers : ReadCommandHeader(r)
    \/ \E r \in Readers : ReadCommandBulk(r)
    \/ \E r \in Readers : ReadCommandReturn(r)
    \/ \E r \in Readers, p \in held : Release(r, p)

SpecResync == InitResync /\ [][NextReadCommand]_vars

----------------------------------------------------------------------------
(* Bulk strings of every declared length the parser accepts.               *)

\* The declared lengths: negative ones, small ones, and the largest ones an
\* int holds.
BulkLengths == {MinInt, -1, 0, 1, 2, MaxInt - 3, MaxInt - 2, MaxInt - 1, MaxInt}

\* '$', the length n, CR LF, then the content with its CR LF when the source
\* holds it all, and two bytes of it when it does not.
BulkItem(prefix, n) ==
    [kind |-> "bulk",
     bytes |-> prefix \o <<DataTypeBulkString>> \o Itoa(n) \o <<CR, LF>>
                   \o (IF n < 0 THEN << >>
                       ELSE IF n <= 2 THEN [j \in 1..n |-> LetterA] \o <<CR, LF>>
                       ELSE <<LetterA, LetterA>>),
     args |-> << >>, n |-> n]

BulkItems == {BulkItem(prefix, n) : prefix \in LinePrefixes, n \in BulkLengths}

\* One Reader on a source of one bulk string, alone or as the element of a
\* command, that ends with io.EOF.
InitBulkLengths ==
    InitWith({1}, {<<b>> : b \in BulkItems}, ChunkSizes, {EOF}, AllOps)

SpecBulkLengths == InitBulkLengths /\ [][Next]_vars

----------------------------------------------------------------------------
(* Calls of ReadCommand that run to their end.  The steps of a call are    *)
(* those of one goroutine, which the scheduler runs as long as it can run:  *)
(* each is taken when it stays enabled.  The caller may stop calling.       *)

\* "*1\r\n$<MaxInt>\r\naa"
HugeBulkItem == BulkItem(OneElementHeader, MaxInt)

TerminationItems ==
    {CmdItem(<<<<LetterA>>>>), HugeBulkItem} \cup SkipItems \cup TruncItems

\* 2 * (MaxItems + 2) array headers of no element in a row, then a source
\* that ends inside a bulk string, or a command
ManySkips ==
    {[j \in 1..(MaxItems + 3) |-> IF j <= MaxItems + 2
                                    THEN CHOOSE s \in SkipItems : TRUE
                                    ELSE last] :
        last \in TruncItems \cup {CmdItem(<<<<LetterA>>>>)}}

InitTermination ==
    InitWith({1}, ItemSeqs(TerminationItems, MaxItems) \cup ManySkips,
             ChunkSizes, {EOF}, {"ReadCommand"})

SpecTermination ==
    /\ InitTermination
    /\ [][NextReadCommand]_vars
    /\ WF_vars(\E r \in Readers : ReadCommandHeader(r))
    /\ WF_vars(\E r \in Readers : ReadCommandBulk(r))
    /\ WF_vars(\E r \in Readers : ReadCommandReturn(r))

----------------------------------------------------------------------------
(* Errors as the Writer writes them, read back.                            *)

\* The kinds: none, and ones without space, CR and LF.
RoundTripKinds == {<< >>, <<UpperE>>, <<UpperE, LetterA>>}

\* The messages: no CR and no LF, shorter and longer than the buffers; runs
\* of 'a', and runs of 'a' with a space as first or as second byte.
RoundTripMsgs ==
    {[j \in 1..k |-> IF j = sp THEN Space ELSE LetterA] :
        k \in RoundTripLengths, sp \in 0..2}

\* The bytes of WriteRawError(kind, msg), Flush.
ErrItem(kind, msg) ==
    [kind |-> "err",
     bytes |-> Flush(WriteRawError(NewWriter(bytesBuffer), kind, msg)).sink,
     args |-> << >>, ek |-> kind, em |-> msg]

ErrItems == {ErrItem(kind, msg) : kind \in RoundTripKinds, msg \in RoundTripMsgs}

\* One Reader on a source of one error, or of one command, that ends with
\* io.EOF.
InitErrorRoundTrip ==
    InitWith({1}, {<<it>> : it \in ErrItems \cup {CmdItem(<<<<LetterA>>>>)}},
             ChunkSizes, {EOF}, AllOps)

SpecErrorRoundTrip == InitErrorRoundTrip /\ [][Next]_vars

----------------------------------------------------------------------------
(* grow and reset on their own: a Command that reads have filled, and one   *)
(* call on it.                                                              *)

\* The numbers of bytes in Raw, within and beyond the capacity of a new
\* Command, and the numbers of Args, within and beyond theirs.
FillLengths == 0..(2 * initialCommandRawSize)
ArgCounts == 0..(initialCommandArgsSize + 1)

\* The numbers of bytes asked of grow: none, some that Raw has room for, and
\* more than a new Command holds.
GrowRequests == 0..(initialCommandRawSize + 2)

\* c after j Args were appended, each a view of the first bytes of Raw
RECURSIVE withArgs(_, _)
withArgs(c, j) ==
    IF j = 0 THEN c
    ELSE appendArg(withArgs(c, j - 1),
                   [a |-> Len(c.arrs), off |-> 0, len |-> Min(c.len, 1)])

\* A new Command after k bytes were appended to Raw and j Args to Args.
FilledCommand(k, j) ==
    withArgs(appendRaw(allocCommand, [i \in 1..k |-> LetterA]), j)

\* Commands as reads leave them, and as the pool hands them out again.
FilledCommands ==
    {FilledCommand(k, j) : k \in FillLengths, j \in ArgCounts}
        \cup {reset(FilledCommand(k, j)) : k \in FillLengths, j \in ArgCounts}

InitBuffers ==
    /\ cmds \in {<<c>> : c \in FilledCommands}
    /\ commandPool = EmptyBag
    /\ rd = << >>
    /\ held = {}
    /\ nReads = 0
    /\ nReleases = 0
    /\ call = noCall
    /\ writer = noWriter

\* cmd.grow(n)
CallGrow ==
    /\ ~call.done
    /\ \E n \in GrowRequests : \E c2 \in {grow(cmds[1], n)} :
           /\ cmds' = <<c2>>
           /\ call' = [call EXCEPT !.fn = "grow", !.arg = <<n>>, !.done = TRUE]
    /\ UNCHANGED <<commandPool, rd, held, nReads, nReleases, writer>>

\* cmd.reset()
CallCommandReset ==
    /\ ~call.done
    /\ \E c2 \in {reset(cmds[1])} :
           /\ cmds' = <<c2>>
           /\ call' = [call EXCEPT !.fn = "reset", !.done = TRUE]
    /\ UNCHANGED <<commandPool, rd, held, nReads, nReleases, writer>>

NextBuffers == CallGrow \/ CallCommandReset

SpecBuffers == InitBuffers /\ [][NextBuffers]_vars

----------------------------------------------------------------------------
(* Properties *)

\* Offset in the source at which item j ends.
ItemEnd(items, j) == Len(ItemBytes(SubSeq(items, 1, j)))

CommandKinds == {"cmd", "longheader"}

\* The calls of ReadCommand of reader r that returned a Command.
Successes(r) ==
    {k \in 1..Len(rd[r].out) :
        rd[r].out[k].op = "ReadCommand" /\ rd[r].out[k].err = nil}

\* C1: every Command that ReadCommand returns has Raw equal to the bytes the
\* source delivered for that one command: they are the bytes of one command
\* of the source, the last bytes the call consumed, and what the call
\* consumed before them are bytes of array headers of length <= 0 only.
C1_RawIsExactBytes ==
    \A r \in Readers : \A k \in Successes(r) :
        LET R == rd[r]
            o == R.out[k]
        IN  /\ o.raw = SubSeq(R.input, o.to - Len(o.raw) + 1, o.to)
            /\ \E j \in 1..Len(R.items) :
                 /\ ItemEnd(R.items, j) = o.to
                 /\ R.items[j].kind \in CommandKinds
                 /\ o.raw = R.items[j].bytes
                 /\ \E i \in 0..(j - 1) :
                      /\ ItemEnd(R.items, i) <= o.from
                      /\ o.from <= ItemEnd(R.items, j - 1)
                      /\ \A m \in (i + 1)..(j - 1) : R.items[m].kind = "skip"

\* a second command was returned in the Command that had held the first one,
\* and the first one was read while the bytes of the second were buffered
C1_Witness ==
    \E r \in Readers :
        /\ Len(rd[r].out) >= 2
        /\ {1, 2} \subseteq Successes(r)
        /\ rd[r].out[2].p = rd[r].out[1].p
        /\ rd[r].out[2].raw # rd[r].out[1].raw
        /\ rd[r].chunk = BufSize
        /\ rd[r].out[1].p \in held

\* The item of the source that holds the byte the reader consumed last.
CurrentItem(R) ==
    CHOOSE j \in 0..Len(R.items) :
        /\ j > 0 => ItemEnd(R.items, j) >= Consumed(R)
        /\ j > 0 => ItemEnd(R.items, j - 1) < Consumed(R)
        /\ j = 0 => Consumed(R) = 0

\* C2: a Command that ReadCommand is about to return for a header that
\* declares n > 0 elements has n Args, in wire order, Args[i] being the
\* content of the i-th bulk without its CRLF; and while the elements are read
\* the Args read so far keep their content, also after Raw has grown.
C2_ArgsAreBulkContents ==
    \A r \in Readers :
        LET R == rd[r]
            c == cmds[R.cmd]
            j == CurrentItem(R)
        IN  /\ (R.pc = "ret" /\ R.err = nil) =>
                  /\ j > 0
                  /\ R.items[j].kind \in CommandKinds
                  /\ Len(c.args) = Len(R.items[j].args)
                  /\ Len(c.args) = R.arrayLength
            /\ (R.pc \in {"bulk", "ret"} /\ R.err = nil /\ j > 0) =>
                  (R.items[j].kind \in CommandKinds =>
                      /\ Len(c.args) = R.i
                      /\ \A k \in 1..Len(c.args) :
                            ArgBytes(c, k) = R.items[j].args[k])

\* a command is complete, Raw has moved to a larger array while it was read,
\* and an Arg still points into the array Raw has left
C2_Witness ==
    \E r \in Readers :
        /\ rd[r].pc = "ret"
        /\ rd[r].err = nil
        /\ Len(cmds[rd[r].cmd].args) >= 2
        /\ \E k \in 1..Len(cmds[rd[r].cmd].args) :
              /\ cmds[rd[r].cmd].args[k].len > 0
              /\ cmds[rd[r].cmd].args[k].a < Len(cmds[rd[r].cmd].arrs)

\* The source of R holds well-formed commands only and ends with io.EOF, and
\* the caller has called nothing but ReadCommand.
PipelineOnly(R) ==
    /\ \A j \in 1..Len(R.items) : R.items[j].kind = "cmd"
    /\ R.fail = EOF
    /\ \A k \in 1..Len(R.out) : R.out[k].op = "ReadCommand"

\* C3: on a source holding k well-formed commands, call i <= k of ReadCommand
\* returns command i and consumes exactly its bytes, and call k+1 returns
\* io.EOF and no Command.
C3_PipelineInOrder ==
    \A r \in Readers :
        PipelineOnly(rd[r]) =>
            \A k \in 1..Len(rd[r].out) :
                LET R == rd[r]
                    o == R.out[k]
                IN  IF k <= Len(R.items)
                    THEN /\ o.err = nil
                         /\ o.p # 0
                         /\ o.raw = R.items[k].bytes
                         /\ o.args = R.items[k].args
                         /\ o.from = ItemEnd(R.items, k - 1)
                         /\ o.to = ItemEnd(R.items, k)
                    ELSE /\ o.err = EOF
                         /\ o.p = 0
                         /\ o.from = Len(R.input)
                         /\ o.to = Len(R.input)

\* two commands were returned and the third call has returned io.EOF
C3_Witness ==
    \E r \in Readers :
        /\ PipelineOnly(rd[r])
        /\ Len(rd[r].items) = 2
        /\ Len(rd[r].out) = 3
        /\ rd[r].out[3].err = EOF
        /\ rd[r].pc = "idle"
        /\ rd[r].ret.cmd = 0

\* C4: ReadCommand over the bytes that WriteArray(n), WriteBytes for each
\* element and Flush produce returns Args equal to the elements and Raw equal
\* to the produced bytes, whatever the elements hold and however the source
\* cuts the bytes.
C4_CommandRoundTrip ==
    \A r \in Readers :
        LET R == rd[r]
        IN  (/\ Len(R.items) >= 1
             /\ R.items[1].kind = "cmd"
             /\ Len(R.out) >= 1
             /\ R.out[1].op = "ReadCommand") =>
                /\ R.out[1].err = nil
                /\ R.out[1].args = R.items[1].args
                /\ R.out[1].raw = buildRawCommand(R.items[1].args)

\* the command read back has an empty element and one that holds CR LF and
\* is longer than the buffers of the Reader, of the Writer and of the Command
C4_Witness ==
    \E r \in Readers :
        /\ Len(rd[r].out) >= 1
        /\ rd[r].out[1].op = "ReadCommand"
        /\ rd[r].out[1].err = nil
        /\ \E a \in 1..Len(rd[r].out[1].args) :
              /\ Len(rd[r].out[1].args[a]) > BufSize + 1
              /\ Len(rd[r].out[1].args[a]) > WBufSize + 1
              /\ Len(rd[r].out[1].args[a]) > initialCommandRawSize + 1
              /\ IndexByte(rd[r].out[1].args[a], CR) > 0
              /\ IndexByte(rd[r].out[1].args[a], LF) > 0
        /\ \E a \in 1..Len(rd[r].out[1].args) : rd[r].out[1].args[a] = << >>
        /\ rd[r].chunk = 1

\* The line of the source that a call that began at offset from reads first:
\* the bytes up to the first LF, or all that is left.
LineAt(input, from) ==
    LET rest == Drop(input, from)
        i == IndexByte(rest, LF)
    IN  IF i > 0 THEN Take(rest, i) ELSE rest

\* The reads of a length, the type byte each expects and the error each
\* derives from an invalid value.
LengthReads ==
    [ReadCommand |-> [dt |-> DataTypeArray, err |-> ErrMultibulkLength],
     ReadArray |-> [dt |-> DataTypeArray, err |-> ErrMultibulkLength],
     ReadInteger |-> [dt |-> DataTypeInteger, err |-> ErrIntegerValue],
     ReadString |-> [dt |-> DataTypeBulkString, err |-> ErrBulkLength]]

\* The call recorded in o began at a length line of its own type that is
\* longer than maxLength.
StartsAtOverlongLine(R, o) ==
    /\ o.op \in DOMAIN LengthReads
    /\ Len(LineAt(R.input, o.from)) > maxLength
    /\ LineAt(R.input, o.from)[1] = LengthReads[o.op].dt

\* C5: a read of a length whose line is longer than maxLength, type byte and
\* CRLF counted, returns no number: it fails with the error its context
\* derives from an invalid value, also when the whole CRLF-terminated line
\* arrives in one slice.
C5_OverlongLineRefused ==
    \A r \in Readers : \A k \in 1..Len(rd[r].out) :
        StartsAtOverlongLine(rd[r], rd[r].out[k]) =>
            rd[r].out[k].err = LengthReads[rd[r].out[k].op].err

\* a CRLF-terminated array header longer than maxLength was taken for a
\* length, and ReadCommand has returned the command that follows it
C5_OverlongLineAccepted ==
    \E r \in Readers : \E k \in 1..Len(rd[r].out) :
        /\ StartsAtOverlongLine(rd[r], rd[r].out[k])
        /\ hasTerminator(LineAt(rd[r].input, rd[r].out[k].from))
        /\ rd[r].out[k].op = "ReadCommand"
        /\ rd[r].out[k].err = nil
        /\ rd[r].out[k].p \in held

\* The source of R starts with array headers of length <= 0 that a
\* well-formed command follows, which is item j.
SkipsThenCommand(R, j) ==
    /\ j \in 1..Len(R.items)
    /\ R.items[j].kind = "cmd"
    /\ \A m \in 1..(j - 1) : R.items[m].kind = "skip"

\* C6: on a source that starts with k >= 0 array headers of length <= 0 and
\* then a well-formed command, the first call of ReadCommand returns that
\* command: it consumes the headers and the command, and Raw and Args hold
\* the command and nothing of the headers.
C6_EmptyArraysSkipped ==
    \A r \in Readers : \A j \in 1..Len(rd[r].items) :
        LET R == rd[r]
        IN  (/\ SkipsThenCommand(R, j)
             /\ Len(R.out) >= 1
             /\ R.out[1].op = "ReadCommand") =>
                /\ R.out[1].err = nil
                /\ R.out[1].p # 0
                /\ R.out[1].raw = R.items[j].bytes
                /\ R.out[1].args = R.items[j].args
                /\ R.out[1].from = 0
                /\ R.out[1].to = ItemEnd(R.items, j)

\* the first call has passed two empty array headers, which came one byte at
\* a time, and has returned the command after them
C6_Witness ==
    \E r \in Readers :
        /\ SkipsThenCommand(rd[r], 2)
        /\ Len(rd[r].out) >= 1
        /\ rd[r].out[1].op = "ReadCommand"
        /\ rd[r].out[1].err = nil
        /\ Len(rd[r].out[1].args) > 1
        /\ rd[r].out[1].to
              = Len(rd[r].items[1].bytes) + Len(rd[r].out[1].raw)
        /\ rd[r].chunk = 1

\* ReadCommand of reader r returns an error in this step.
ReturnsError(r) ==
    /\ rd[r].pc = "ret"
    /\ rd[r].err # nil
    /\ rd'[r].pc = "idle"

\* C7: when ReadCommand returns an error, of whatever kind, the caller gets
\* no Command, and the Command the call had taken, which was not in the pool
\* while the call ran, is in the pool once when the caller has the error.
C7_ErrorPutsBackOnce ==
    /\ [](\A r \in Readers :
            rd[r].pc \in {"header", "bulk", "ret"} =>
                CopiesIn(rd[r].cmd, commandPool) = 0)
    /\ [][\A r \in Readers :
            ReturnsError(r) =>
                /\ rd'[r].ret.err = rd[r].err
                /\ rd'[r].ret.cmd = 0
                /\ rd'[r].out[Len(rd'[r].out)].p = 0
                /\ rd[r].cmd \notin held'
                /\ CopiesIn(rd[r].cmd, commandPool') = 1]_vars

\* a call has failed on the type byte of a line and the next one on the end
\* of the source in the middle of a bulk, and the Command of that call is
\* back in the pool with the bytes it had read
C7_Witness ==
    \E r \in Readers :
        /\ rd[r].pc = "idle"
        /\ Len(rd[r].out) >= 2
        /\ rd[r].out[1].op = "ReadCommand"
        /\ rd[r].out[1].err = ErrExpected(DataTypeArray, DataTypeSimpleString)
        /\ rd[r].out[2].op = "ReadCommand"
        /\ rd[r].out[2].err = EOF
        /\ rd[r].out[2].to > rd[r].out[2].from
        /\ rd[r].ret.cmd = 0
        /\ \E p \in BagToSet(commandPool) :
              /\ cmds[p].len > 0
              /\ CopiesIn(p, commandPool) = 1

\* Reader r has taken its Command from newCommand and has read nothing yet.
JustDrawn(r) ==
    /\ rd[r].pc \in {"header", "typed"}
    /\ Consumed(rd[r]) = rd[r].from

\* C8: the callers hold as many Commands as ReadCommand has returned less
\* those the callers have released, and a Command that newCommand hands to a
\* read has no bytes in Raw and no Args.
C8_PoolSafety ==
    /\ Cardinality(held) = nReads - nReleases
    /\ \A r \in Readers :
          JustDrawn(r) =>
              /\ Raw(cmds[rd[r].cmd]) = << >>
              /\ Args(cmds[rd[r].cmd]) = << >>

\* a read has drawn a Command that had held a command and that its caller
\* has released, while the caller holds another Command
C8_Witness ==
    \E r \in Readers :
        /\ JustDrawn(r)
        /\ CapRaw(cmds[rd[r].cmd]) > initialCommandRawSize
        /\ \E k \in Successes(r) : rd[r].out[k].p = rd[r].cmd
        /\ nReleases > 0
        /\ held # {}

\* Call k of reader r is the one that gave the caller the Command it holds.
HoldsFrom(r, k) ==
    /\ k \in Successes(r)
    /\ rd[r].out[k].p \in held
    /\ \A n \in Successes(r) : n > k => rd[r].out[n].p # rd[r].out[k].p

\* C9: a Command that ReadCommand has returned and the caller has not
\* released is neither in the pool nor the Command of a read in progress,
\* and it has the Raw and the Args it was returned with, whatever reads the
\* Reader has done since.
C9_HeldCommandUntouched ==
    \A r \in Readers : \A k \in 1..Len(rd[r].out) :
        HoldsFrom(r, k) =>
            LET p == rd[r].out[k].p
            IN  /\ CopiesIn(p, commandPool) = 0
                /\ \A q \in Readers : rd[q].cmd # p
                /\ Raw(cmds[p]) = rd[r].out[k].raw
                /\ Args(cmds[p]) = rd[r].out[k].args

\* the caller still holds the Command of its first call; since then a typed
\* read has succeeded and a ReadCommand has failed, in recycled Commands
C9_Witness ==
    \E r \in Readers :
        /\ HoldsFrom(r, 1)
        /\ Len(rd[r].out) = 3
        /\ rd[r].out[2].op \in TypedOps
        /\ rd[r].out[2].err = nil
        /\ rd[r].out[3].op = "ReadCommand"
        /\ rd[r].out[3].err # nil
        /\ Len(cmds) = 2
        /\ cmds[2].len > 0

\* Reader r is in a read: it has a Command from newCommand.
InRead(r) == rd[r].pc \in {"header", "bulk", "ret", "typed"}

\* C10: two Readers that share commandPool never have the same Command in
\* their reads at the same time, and the Command of a read is not in the pool
\* until the read puts it back.
C10_ReadsDrawDistinctCommands ==
    \A r \in Readers :
        InRead(r) =>
            /\ rd[r].cmd # 0
            /\ CopiesIn(rd[r].cmd, commandPool) = 0
            /\ \A q \in Readers \ {r} : InRead(q) => rd[q].cmd # rd[r].cmd

\* two Readers are in a read at the same time, one of them in a Command
\* that an earlier read of the other had drawn and put back
C10_Witness ==
    \E r \in Readers : \E q \in Readers \ {r} :
        /\ InRead(r)
        /\ InRead(q)
        /\ \E k \in 1..Len(rd[r].out) : rd[r].out[k].cmd = rd[q].cmd

----------------------------------------------------------------------------
(* Errors of the reads (SpecLines, SpecFaulty) *)

IsDigit(ch) == Zero <= ch /\ ch <= Zero + 9

\* p is an optionally signed decimal number: an optional '-', then one or
\* more digits
IsDecimal(p) ==
    LET d == IF p # << >> /\ p[1] = Minus THEN Tail(p) ELSE p
    IN  Len(d) >= 1 /\ \A i \in 1..Len(d) : IsDigit(d[i])

\* The line the source of R holds, when the source holds one line.
TheLine(R) == R.items[1]

\* The first call on R was ReadCommand and has returned.
FirstIsReadCommand(R) ==
    /\ Len(R.out) >= 1
    /\ R.out[1].op = "ReadCommand"

\* The source of R begins with an array header line whose payload is empty
\* or is not an optionally signed decimal number.
MalformedHeader(R) ==
    /\ TheLine(R).kind = "line"
    /\ TheLine(R).prefix = << >>
    /\ TheLine(R).first = DataTypeArray
    /\ ~IsDecimal(TheLine(R).payload)

\* C11: ReadCommand returns ErrMultibulkLength whenever the array header
\* line starts with '*' and its payload up to the CR LF is empty or is not an
\* optionally signed decimal number.
C11_MalformedHeaderRefused ==
    \A r \in Readers :
        (FirstIsReadCommand(rd[r]) /\ MalformedHeader(rd[r]))
            => rd[r].out[1].err = ErrMultibulkLength

\* ReadCommand has read the header "*-\r\n" as a header of length 0, skipped
\* it, and returned the command that follows it.
C11_LoneMinusHeaderSkipped ==
    \E r \in Readers :
        /\ FirstIsReadCommand(rd[r])
        /\ MalformedHeader(rd[r])
        /\ TheLine(rd[r]).payload = <<Minus>>
        /\ rd[r].out[1].err # ErrMultibulkLength
        /\ rd[r].out[1].from = 0
        /\ rd[r].out[1].to > Len(<<DataTypeArray, Minus, CR, LF>>)

\* Value of a sequence of digits.
RECURSIVE DigitsValue(_)
DigitsValue(d) ==
    IF d = << >> THEN 0
    ELSE 10 * DigitsValue(SubSeq(d, 1, Len(d) - 1)) + (d[Len(d)] - Zero)

\* Value of an optionally signed decimal number.
DecimalValue(p) ==
    IF p[1] = Minus THEN -DigitsValue(Tail(p)) ELSE DigitsValue(p)

\* The source of R is a command of one element whose first line starts
\* with '$'.
ElementLine(R) ==
    /\ TheLine(R).kind = "line"
    /\ TheLine(R).prefix = OneElementHeader
    /\ TheLine(R).first = DataTypeBulkString

\* The declared number of content bytes is followed by two bytes that are not
\* CR LF.
NoTerminatorAfterContent(R) ==
    /\ IsDecimal(TheLine(R).payload)
    /\ LET n == DecimalValue(TheLine(R).payload)
           tail == TheLine(R).tail
       IN  /\ n >= 0
           /\ Len(tail) >= n + 2
           /\ SubSeq(tail, n + 1, n + 2) # <<CR, LF>>

\* The element ReadCommand refuses: a length line with an empty or
\* non-numeric payload, a negative length, or content not followed by CR LF.
MalformedElement(R) ==
    /\ ElementLine(R)
    /\ \/ ~IsDecimal(TheLine(R).payload)
       \/ IsDecimal(TheLine(R).payload) /\ DecimalValue(TheLine(R).payload) < 0
       \/ NoTerminatorAfterContent(R)

\* C12: inside ReadCommand an element yields ErrBulkLength when its '$'
\* length line has an empty or non-numeric payload, when its declared length
\* is negative, and when the two bytes after the declared number of content
\* bytes are not CR LF.
C12_MalformedElementRefused ==
    \A r \in Readers :
        (FirstIsReadCommand(rd[r]) /\ MalformedElement(rd[r]))
            => rd[r].out[1].err = ErrBulkLength

\* ReadCommand has read "*1\r\n$-\r\n\r\n" and returned a command of one
\* empty argument.
C12_LoneMinusLengthAccepted ==
    \E r \in Readers :
        /\ FirstIsReadCommand(rd[r])
        /\ ElementLine(rd[r])
        /\ TheLine(rd[r]).payload = <<Minus>>
        /\ rd[r].out[1].err = nil
        /\ rd[r].out[1].args = <<<< >>>>

\* The discriminant a read expects at the start of its first line.
DiscriminantOf(op) ==
    CASE op = "ReadSimpleString" -> DataTypeSimpleString
      [] op = "ReadError" -> DataTypeError
      [] op = "ReadInteger" -> DataTypeInteger
      [] op = "ReadString" -> DataTypeBulkString
      [] OTHER -> DataTypeArray

\* The reads that give readLine no limit.
UnlimitedOps == {"ReadSimpleString", "ReadError"}

\* The lines of the source of R that its first call has checked the first
\* byte of, or refused for their length: for each the discriminant the call
\* expected, the first byte and the length of the line.
CheckedLines(R) ==
    LET it == TheLine(R)
        op == R.out[1].op
        line == <<it.first>> \o it.payload \o <<CR, LF>>
    IN  IF Len(R.out) = 0 \/ Len(R.items) = 0 \/ it.kind # "line"
        THEN {}
        ELSE IF it.prefix = << >>
        THEN {[want |-> DiscriminantOf(op), first |-> it.first,
               len |-> Len(line)]}
        ELSE {[want |-> DiscriminantOf(op), first |-> it.prefix[1],
               len |-> Len(it.prefix)]}
             \cup (IF op = "ReadCommand"
                   THEN {[want |-> DataTypeBulkString, first |-> it.first,
                          len |-> Len(line)]}
                   ELSE {})

\* The first call on R met a line whose first byte is not the discriminant it
\* expects.
WrongFirstByte(R, l) ==
    /\ l \in CheckedLines(R)
    /\ l.first # l.want

\* The result is the error "expected 'X', got 'Y'".
IsExpectedError(err, X, Y) == err = [k |-> "expected", x |-> X, y |-> Y]

C14_EOFOnlyBetweenCommands ==
    \A r \in Readers : \A k \in 1..Len(rd[r].out) :
        (rd[r].out[k].op = "ReadCommand" /\ rd[r].out[k].err = EOF)
            => rd[r].out[k].to = rd[r].out[k].from

\* The source ended inside the header line or inside the bulk of a command
\* and ReadCommand, having consumed that part, returned io.EOF.
C14_EOFInsideCommand ==
    \E r \in Readers : \E k \in 1..Len(rd[r].out) :
        /\ rd[r].out[k].op = "ReadCommand"
        /\ rd[r].out[k].err = EOF
        /\ rd[r].fail = EOF
        /\ Len(rd[r].items) >= 1
        /\ rd[r].items[Len(rd[r].items)].kind = "trunc"
        /\ rd[r].out[k].from = ItemEnd(rd[r].items, Len(rd[r].items) - 1)
        /\ rd[r].out[k].to = Len(rd[r].input)
        /\ rd[r].out[k].to > rd[r].out[k].from

----------------------------------------------------------------------------
(* ReadAny (SpecAny) *)

\* Every item of the source of R is a well-formed frame.
WellFormedSource(R) == \A j \in 1..Len(R.items) : R.items[j].kind = "frame"

IsBulkFrame(f) == f.kind = "frame" /\ f.bytes[1] = DataTypeBulkString

DeclaredLength(f) == DecimalValue(SubSeq(f.bytes, 2, IndexByte(f.bytes, CR) - 1))

BulkContent(f) ==
    SubSeq(f.bytes, IndexByte(f.bytes, LF) + 1,
           IndexByte(f.bytes, LF) + DeclaredLength(f))

\* Call k of ReadAny on R has returned and was given the bulk string frame
\* that is item k of a well-formed source.
ReadAnyOfBulk(R, k) ==
    /\ WellFormedSource(R)
    /\ k <= Len(R.out)
    /\ k <= Len(R.items)
    /\ IsBulkFrame(R.items[k])

\* C16: ReadAny on a bulk string of negative declared length returns
\* DataTypeNull with a nil value and no error; on a bulk string of length
\* >= 0, 0 included, it returns DataTypeBulkString with the content as value.
C16_NullAndBulk ==
    \A r \in Readers : \A k \in 1..Len(rd[r].out) :
        ReadAnyOfBulk(rd[r], k) =>
            LET o == rd[r].out[k]
                f == rd[r].items[k]
            IN  /\ o.err = nil
                /\ DeclaredLength(f) < 0 =>
                       o.dt = DataTypeNull /\ o.v = nilValue
                /\ DeclaredLength(f) >= 0 =>
                       /\ o.dt = DataTypeBulkString
                       /\ o.v = [t |-> "string", s |-> BulkContent(f),
                                 msg |-> << >>, n |-> 0]

\* Two calls of ReadAny have returned, one given a bulk string of negative
\* length and one given the bulk string of length 0.
C16_Witness ==
    \E r \in Readers : \E j, k \in 1..Len(rd[r].out) :
        /\ ReadAnyOfBulk(rd[r], j)
        /\ ReadAnyOfBulk(rd[r], k)
        /\ DeclaredLength(rd[r].items[j]) < 0
        /\ DeclaredLength(rd[r].items[k]) = 0
        /\ rd[r].out[j].dt = DataTypeNull
        /\ rd[r].out[k].dt = DataTypeBulkString

ReplyTypes ==
    {DataTypeSimpleString, DataTypeError, DataTypeInteger, DataTypeBulkString,
     DataTypeArray}

\* The byte at which call k on R began, 0 when the source was at its end.
FirstByteOf(R, k) ==
    IF R.out[k].from < Len(R.input) THEN R.input[R.out[k].from + 1] ELSE 0

\* The quoted forms of the bytes that are no reply type: "_", "\r", "\""
\* and "\x01".
QuotedAs(ch) ==
    CASE ch = DataTypeNull -> <<DoubleQuote, DataTypeNull, DoubleQuote>>
      [] ch = CR -> <<DoubleQuote, Backslash, LetterR, DoubleQuote>>
      [] ch = DoubleQuote -> <<DoubleQuote, Backslash, DoubleQuote, DoubleQuote>>
      [] ch = StartOfHeading ->
             <<DoubleQuote, Backslash, LetterX, Zero, Zero + 1, DoubleQuote>>

\* Call k of ReadAny on R has returned and began at a byte that is none of
\* + - : $ *.
ReadAnyOfUnknown(R, k) ==
    /\ k <= Len(R.out)
    /\ R.out[k].op = "ReadAny"
    /\ R.out[k].from < Len(R.input)
    /\ FirstByteOf(R, k) \notin ReplyTypes

\* C17: ReadAny on a stream whose first byte is none of + - : $ * (the
\* internal '_' of DataTypeNull included) returns DataTypeNull, a nil value
\* and the error of kind ERR "Protocol error, got <q> as reply type byte",
\* <q> the byte quoted.
C17_UnknownReplyType ==
    \A r \in Readers : \A k \in 1..Len(rd[r].out) :
        ReadAnyOfUnknown(rd[r], k) =>
            /\ rd[r].out[k].dt = DataTypeNull
            /\ rd[r].out[k].v = nilValue
            /\ rd[r].out[k].err =
                   [k |-> "replytype", x |-> FirstByteOf(rd[r], k),
                    q |-> QuotedAs(FirstByteOf(rd[r], k))]

\* ReadAny was given a line that starts with '_' after a well-formed frame,
\* and has returned.
C17_Witness ==
    \E r \in Readers :
        /\ ReadAnyOfUnknown(rd[r], 2)
        /\ rd[r].out[1].err = nil
        /\ FirstByteOf(rd[r], 2) = DataTypeNull
        /\ rd[r].out[2].err.k = "replytype"

IsArrayFrame(f) == f.kind = "frame" /\ f.bytes[1] = DataTypeArray

\* Call k of ReadAny on R has returned and was given the array header that
\* is item k of a well-formed source.
ReadAnyOfArray(R, k) ==
    /\ WellFormedSource(R)
    /\ k <= Len(R.out)
    /\ k <= Len(R.items)
    /\ IsArrayFrame(R.items[k])

\* C18: ReadAny on an array header returns DataTypeArray with the declared
\* number of elements as value, for 0 and -1 as for any other number, and
\* consumes the header line only: the frames after the header are there for
\* the next reads.
C18_ArrayHeaderOnly ==
    \A r \in Readers : \A k \in 1..Len(rd[r].out) :
        ReadAnyOfArray(rd[r], k) =>
            LET o == rd[r].out[k]
                f == rd[r].items[k]
            IN  /\ o.err = nil
                /\ o.dt = DataTypeArray
                /\ o.v = [t |-> "int", s |-> << >>, msg |-> << >>,
                          n |-> DeclaredLength(f)]
                /\ o.to = o.from + IndexByte(f.bytes, LF)
                /\ (k + 1 <= Len(rd[r].out) /\ k + 1 <= Len(rd[r].items)) =>
                       /\ rd[r].out[k + 1].from = o.to
                       /\ rd[r].out[k + 1].err = nil
                       /\ rd[r].out[k + 1].dt = rd[r].items[k + 1].dt
                       /\ rd[r].out[k + 1].v = rd[r].items[k + 1].v

\* ReadAny has returned -1 for the header "*-1\r\n", and the next ReadAny
\* the bulk string that follows the header.
C18_Witness ==
    \E r \in Readers :
        /\ ReadAnyOfArray(rd[r], 1)
        /\ DeclaredLength(rd[r].items[1]) = -1
        /\ rd[r].out[1].v.n = -1
        /\ Len(rd[r].out) >= 2
        /\ Len(rd[r].items) = 2
        /\ IsBulkFrame(rd[r].items[2])
        /\ rd[r].out[2].dt = DataTypeBulkString

IsErrorFrame(f) == f.kind = "frame" /\ f.bytes[1] = DataTypeError

\* The bytes of an error line between '-' and the terminating CR LF.
ErrorLine(f) == SubSeq(f.bytes, 2, Len(f.bytes) - 2)

\* The places of the spaces and of the LF of a line.
SplitPlaces(line) == {i \in 1..Len(line) : line[i] = Space \/ line[i] = LF}

\* Call k of ReadAny on R has returned and was given the error line that is
\* item k of a well-formed source.
ReadAnyOfError(R, k) ==
    /\ WellFormedSource(R)
    /\ k <= Len(R.out)
    /\ k <= Len(R.items)
    /\ IsErrorFrame(R.items[k])

\* C19: ReadError splits the line between '-' and the terminating CR LF at
\* its first space or LF: kind is what comes before it and msg what comes
\* after it, spaces, CR and LF included; a line with neither is the kind, with
\* an empty msg; an empty line gives an empty kind and an empty msg.
C19_ErrorSplit ==
    \A r \in Readers : \A k \in 1..Len(rd[r].out) :
        ReadAnyOfError(rd[r], k) =>
            LET o == rd[r].out[k]
                line == ErrorLine(rd[r].items[k])
                places == SplitPlaces(line)
            IN  /\ o.err = nil
                /\ o.dt = DataTypeError
                /\ o.v.t = "error"
                /\ places = {} => o.v.s = line /\ o.v.msg = << >>
                /\ line = << >> => o.v.s = << >> /\ o.v.msg = << >>
                /\ \A i \in places :
                       (\A j \in places : i <= j) =>
                           /\ o.v.s = SubSeq(line, 1, i - 1)
                           /\ o.v.msg = SubSeq(line, i + 1, Len(line))

\* ReadError has split a line at a LF that comes before a space, and the msg
\* it returned has a space in it.
C19_Witness ==
    \E r \in Readers :
        /\ ReadAnyOfError(rd[r], 1)
        /\ ErrorLine(rd[r].items[1]) = <<LetterA, LF, Space>>
        /\ rd[r].out[1].v.s = <<LetterA>>
        /\ rd[r].out[1].v.msg = <<Space>>

----------------------------------------------------------------------------
(* parseInt (SpecParseInt) *)

\* The value of the number fits the int.
FitsInt(p) == MinInt <= DecimalValue(p) /\ DecimalValue(p) <= MaxInt

\* C20: parseInt accepts exactly the payloads made of an optional leading '-'
\* and one or more ASCII digits, and returns their signed decimal value;
\* every other payload (the empty one, a '-' alone, one with a byte that is
\* no digit) gives errValue.
C20_ParseIntAcceptsExactlyDecimals ==
    call.done =>
        IF IsDecimal(call.arg)
        THEN /\ call.ret.err = nil
             /\ FitsInt(call.arg) => call.ret.n = DecimalValue(call.arg)
        ELSE call.ret.err = errValue

\* parseInt was given "-" and has returned 0 with no error.
C20_LoneMinusParsed ==
    /\ call.done
    /\ call.arg = <<Minus>>
    /\ call.ret = [n |-> 0, err |-> nil]

----------------------------------------------------------------------------
(* ReadInteger and ReadArray on a length line (SpecLengths) *)

\* The first call on R was op, on a line that starts with the type byte of
\* op, and has returned.
ReadOfOwnLine(R, op) ==
    /\ Len(R.out) >= 1
    /\ R.out[1].op = op
    /\ TheLine(R).kind = "line"
    /\ TheLine(R).prefix = << >>
    /\ TheLine(R).first = DiscriminantOf(op)

\* Number of bytes of the line of R, type byte and CR LF counted.
LineLength(R) == Len(TheLine(R).payload) + 3

\* The payload of the line is refused by parseInt, or the line is longer
\* than maxLength.
InvalidLengthLine(R) ==
    \/ parseInt(TheLine(R).payload).err = errValue
    \/ LineLength(R) > maxLength

\* C21: ReadInteger returns ErrIntegerValue whenever the payload of the ':'
\* line is refused by parseInt or the line is longer than maxLength, and
\* ReadArray returns ErrMultibulkLength in the same cases for a '*' line.
C21_InvalidLengthLineRefused ==
    \A r \in Readers :
        /\ (ReadOfOwnLine(rd[r], "ReadInteger") /\ InvalidLengthLine(rd[r]))
               => rd[r].out[1].err = ErrIntegerValue
        /\ (ReadOfOwnLine(rd[r], "ReadArray") /\ InvalidLengthLine(rd[r]))
               => rd[r].out[1].err = ErrMultibulkLength

\* ReadInteger was given ":00001\r\n", a line longer than maxLength that
\* fits the buffer, and has returned 1 with no error.
C21_OverlongIntegerAccepted ==
    \E r \in Readers :
        /\ ReadOfOwnLine(rd[r], "ReadInteger")
        /\ LineLength(rd[r]) > maxLength
        /\ LineLength(rd[r]) <= BufSize
        /\ rd[r].out[1].err = nil
        /\ rd[r].ret.n = 1

\* What holds of the code: the payload refused by parseInt, and the line
\* that does not fit the buffer, are refused.
LengthLineRefusedByParserOrBuffer ==
    \A r \in Readers : \A op \in {"ReadInteger", "ReadArray"} :
        (/\ ReadOfOwnLine(rd[r], op)
         /\ \/ parseInt(TheLine(rd[r]).payload).err = errValue
            \/ LineLength(rd[r]) > BufSize)
            => rd[r].out[1].err = LengthReads[op].err

----------------------------------------------------------------------------
(* Round trips through the Writer and the Reader (SpecRoundTrip) *)

\* The first call on R was op, on a source that holds one item of the given
\* kind, and is the only one that has returned.
FirstReadOf(R, op, kind) ==
    /\ Len(R.out) = 1
    /\ R.out[1].op = op
    /\ Len(R.items) = 1
    /\ R.items[1].kind = kind

\* C22: for every integer i of the width of int64, the single digits 0..9,
\* the negative values and both extremes included, ReadInteger over the bytes
\* of WriteInt64(i) returns i and no error; the bytes of the least integer
\* are exactly maxLength long.
C22_IntegerRoundTrip ==
    /\ Len(IntItem(MinInt).bytes) = maxLength
    /\ \A r \in Readers :
           FirstReadOf(rd[r], "ReadInteger", "int") =>
               /\ rd[r].out[1].err = nil
               /\ rd[r].ret.n = rd[r].items[1].i
               /\ Consumed(rd[r]) = Len(rd[r].items[1].bytes)

\* ReadInteger has read the least integer back, from a source that delivers
\* one byte at a time.
C22_Witness ==
    \E r \in Readers :
        /\ FirstReadOf(rd[r], "ReadInteger", "int")
        /\ rd[r].items[1].i = MinInt
        /\ rd[r].ret.n = MinInt
        /\ rd[r].chunk = 1


\* C23: for every string s that holds no CR and no LF, of any length,
\* ReadSimpleString over the bytes of WriteSimpleString(s) returns s and no
\* error.
C23_SimpleStringRoundTrip ==
    \A r \in Readers :
        FirstReadOf(rd[r], "ReadSimpleString", "str") =>
            /\ rd[r].out[1].err = nil
            /\ rd[r].ret.s = rd[r].items[1].s

\* ReadSimpleString was given "+aaaaaaaa\r\n", whose CR is the last byte the
\* buffer of the bufio.Reader holds, and has returned io.EOF.
C23_TerminatorAcrossBuffers ==
    \E r \in Readers :
        /\ FirstReadOf(rd[r], "ReadSimpleString", "str")
        /\ Len(rd[r].items[1].s) = BufSize - 2
        /\ rd[r].out[1].err = EOF
        /\ rd[r].ret.s = << >>

\* What holds of the code: the strings whose frame does not end its CR at a
\* multiple of the size of the buffer are read back.
SimpleStringRoundTripElsewhere ==
    \A r \in Readers :
        (/\ FirstReadOf(rd[r], "ReadSimpleString", "str")
         /\ (Len(rd[r].items[1].s) + 2) % BufSize # 0)
            => /\ rd[r].out[1].err = nil
               /\ rd[r].ret.s = rd[r].items[1].s

----------------------------------------------------------------------------
(* What the Writer emits (SpecWriter, SpecWriterInts) *)

\* The bytes a Writer has taken and not lost: those its io.Writer has
\* received, then those it has buffered.
Stream(w) == w.sink \o w.buf

\* The last call on the Writer was the write operation name, and the
\* bufio.Writer has met no error of its io.Writer.
Wrote(name) ==
    /\ writer.last.name = name
    /\ writer.w.err = nil

\* The last write operation has added the bytes e, and nothing else, to what
\* the Writer had taken before.
Emits(e) == Stream(writer.w) = Stream(writer.prev) \o e

\* The bytes that follow those the Writer had taken before its last write
\* operation.
Frame == Drop(Stream(writer.w), Len(Stream(writer.prev)))

\* Number of bytes of b that are ch.
Count(b, ch) == Cardinality({j \in 1..Len(b) : b[j] = ch})

NoCRLF(s) == \A j \in 1..Len(s) : s[j] # CR /\ s[j] # LF

\* CR as backslash and 'r', LF as backslash and 'n', every other byte as it
\* is.
EscapedByte(ch) ==
    IF ch = CR THEN <<Backslash, LetterR>>
    ELSE IF ch = LF THEN <<Backslash, LetterN>>
    ELSE <<ch>>

RECURSIVE EscapeOf(_)
EscapeOf(s) ==
    IF s = << >> THEN << >> ELSE EscapedByte(Head(s)) \o EscapeOf(Tail(s))

\* C24: WriteSimpleString(s) emits '+', then s with every CR replaced by
\* backslash-r, every LF by backslash-n and every other byte unchanged and in
\* order, then CR LF; when s holds no CR and no LF the output is '+' s CR LF,
\* and the frame holds one CR and one LF, as its last two bytes.
C24_EscapeLaw ==
    Wrote("WriteSimpleString") =>
        /\ Emits(<<DataTypeSimpleString>> \o EscapeOf(writer.last.s)
                    \o <<CR, LF>>)
        /\ NoCRLF(writer.last.s) =>
               /\ Emits(<<DataTypeSimpleString>> \o writer.last.s
                           \o <<CR, LF>>)
               /\ Count(Frame, CR) = 1
               /\ Count(Frame, LF) = 1
               /\ SubSeq(Frame, Len(Frame) - 1, Len(Frame)) = <<CR, LF>>

\* WriteSimpleString("a\rb\n") has emitted "+a\\rb\\n\r\n", on a Writer that
\* held bytes of an earlier write.
C24_Witness ==
    /\ Wrote("WriteSimpleString")
    /\ writer.last.s = <<LetterA, CR, LetterB, LF>>
    /\ Stream(writer.prev) # << >>
    /\ Frame = <<DataTypeSimpleString, LetterA, Backslash, LetterR, LetterB,
                 Backslash, LetterN, CR, LF>>


\* The last call was WriteError or WriteRawError.
WroteError == Wrote("WriteError") \/ Wrote("WriteRawError")

\* "ERR"
ERR == <<UpperE, UpperR, UpperR>>

\* The line of an error: the kind, ERR when it is empty, then a space and
\* the msg when the msg is not empty, both escaped.
ErrorLineOf(kind, msg) ==
    EscapeOf(IF kind = << >> THEN ERR ELSE kind)
        \o (IF msg = << >> THEN << >> ELSE <<Space>> \o EscapeOf(msg))

\* C25: WriteError and WriteRawError emit '-', the kind (ERR when it is
\* empty), then one space and the msg only when the msg is not empty, then
\* CR LF, with CR and LF escaped in the kind and in the msg; an empty kind
\* and msg give "-ERR\r\n", an empty kind with a msg m gives "-ERR m\r\n".
C25_ErrorFrame ==
    WroteError =>
        /\ Emits(<<DataTypeError>>
                    \o ErrorLineOf(writer.last.s, writer.last.t)
                    \o <<CR, LF>>)
        /\ (writer.last.s = << >> /\ writer.last.t = << >>) =>
               Emits(<<DataTypeError, UpperE, UpperR, UpperR, CR, LF>>)
        /\ (writer.last.s = << >> /\ writer.last.t # << >>
                /\ NoCRLF(writer.last.t)) =>
               Emits(<<DataTypeError, UpperE, UpperR, UpperR, Space>>
                        \o writer.last.t \o <<CR, LF>>)

\* WriteRawError("E\r", "\n a") has emitted "-E\\r \\n a\r\n".
C25_Witness ==
    /\ Wrote("WriteRawError")
    /\ writer.last.s = <<UpperE, CR>>
    /\ writer.last.t = <<LF, Space, LetterA>>
    /\ Frame = <<DataTypeError, UpperE, Backslash, LetterR, Space,
                 Backslash, LetterN, Space, LetterA, CR, LF>>


\* d is the canonical decimal form of a number: an optional '-', then digits
\* with no leading '0' unless the number is "0"; never "-0".
IsCanonical(d) ==
    /\ IsDecimal(d)
    /\ LET digits == IF d[1] = Minus THEN Tail(d) ELSE d
       IN  /\ Len(digits) > 1 => digits[1] # Zero
           /\ d[1] = Minus => digits # <<Zero>>

\* The bytes of the frame before its first CR, the type byte left out.
HeaderPayload == SubSeq(Frame, 2, IndexByte(Frame, CR) - 1)

\* The frame is a header line: the type byte dt, the canonical decimal form of
\* n, CR LF, and after it the bytes rest.
IsHeaderThen(dt, n, rest) ==
    /\ Frame # << >>
    /\ Frame[1] = dt
    /\ IsCanonical(HeaderPayload)
    /\ DecimalValue(HeaderPayload) = n
    /\ Emits(<<dt>> \o HeaderPayload \o <<CR, LF>> \o rest)

\* C26: WriteString(s) and WriteBytes(b) emit '$', the decimal number of
\* bytes, CR LF, the payload as it is (not escaped), CR LF; both do the same
\* for the same bytes; the empty payload gives "$0\r\n\r\n".
C26_BulkFrame ==
    /\ Wrote("WriteString") =>
           /\ IsHeaderThen(DataTypeBulkString, Len(writer.last.s),
                           writer.last.s \o <<CR, LF>>)
           /\ Stream(writer.w)
                  = Stream(WriteBytes(writer.prev, writer.last.s))
           /\ writer.last.s = << >> =>
                  Emits(<<DataTypeBulkString, Zero, CR, LF, CR, LF>>)
    /\ Wrote("WriteBytes") =>
           /\ IsHeaderThen(DataTypeBulkString, Len(writer.last.s),
                           writer.last.s \o <<CR, LF>>)
           /\ Stream(writer.w)
                  = Stream(WriteString(writer.prev, writer.last.s))
           /\ writer.last.s = << >> =>
                  Emits(<<DataTypeBulkString, Zero, CR, LF, CR, LF>>)

\* WriteString("a\rb\n") has emitted "$4\r\na\rb\n\r\n".
C26_Witness ==
    /\ Wrote("WriteString")
    /\ Frame = <<DataTypeBulkString, Zero + 4, CR, LF, LetterA, CR, LetterB,
                 LF, CR, LF>>


SignedWrites == {"WriteInt", "WriteInt32", "WriteInt64"}

UnsignedWrites == {"WriteUint", "WriteUint32", "WriteUint64"}

\* The last call was one of the write operations in names.
WroteOneOf(names) == \E name \in names : Wrote(name)

\* C27: WriteInt, WriteInt32 and WriteInt64 emit ':', the canonical signed
\* decimal form of the number and CR LF, WriteUint, WriteUint32 and
\* WriteUint64 the unsigned form; for 0..9 the one byte written is what the
\* general conversion gives; the output does not depend on the value an
\* earlier call has left in smallbuf.
C27_IntegerFrame ==
    /\ WroteOneOf(SignedWrites) =>
           IsHeaderThen(DataTypeInteger, writer.last.i, << >>)
    /\ WroteOneOf(UnsignedWrites) =>
           /\ IsHeaderThen(DataTypeInteger, writer.last.i, << >>)
           /\ HeaderPayload[1] # Minus
    /\ (WroteOneOf(SignedWrites \cup UnsignedWrites)
            /\ writer.last.i \in 0..9) =>
           Emits(<<DataTypeInteger>> \o Itoa(writer.last.i) \o <<CR, LF>>)
    /\ WroteOneOf(SignedWrites \cup UnsignedWrites) =>
           \A b \in {<< >>, Itoa(MinInt)} :
               Stream(writer.w)
                   = Stream(IF writer.last.name \in SignedWrites
                            THEN WriteInt64([writer.prev EXCEPT !.smallbuf = b],
                                            writer.last.i)
                            ELSE WriteUint64([writer.prev EXCEPT !.smallbuf = b],
                                             writer.last.i))

\* WriteInt64 has emitted ":-1\r\n" on a Writer whose smallbuf held the least
\* integer, left by the call before.
C27_Witness ==
    /\ Wrote("WriteInt64")
    /\ writer.prev.smallbuf = Itoa(MinInt)
    /\ writer.last.i = -1
    /\ Frame = <<DataTypeInteger, Minus, Zero + 1, CR, LF>>


\* C28: WriteArray(n) emits the header '*', the decimal form of n, CR LF
\* and nothing else, for every n, 0 and -1 included; WriteNull emits the five
\* bytes "$-1\r\n"; neither emits bytes of an element.
C28_HeaderOnly ==
    /\ Wrote("WriteArray") =>
           /\ IsHeaderThen(DataTypeArray, writer.last.i, << >>)
           /\ Len(Frame) = Len(HeaderPayload) + 3
    /\ Wrote("WriteNull") =>
           /\ Emits(<<DataTypeBulkString, Minus, Zero + 1, CR, LF>>)
           /\ Len(Frame) = 5

\* WriteArray(-1) has emitted "*-1\r\n" after a WriteNull.
C28_Witness ==
    /\ Wrote("WriteArray")
    /\ writer.last.i = -1
    /\ Frame = <<DataTypeArray, Minus, Zero + 1, CR, LF>>
    /\ Len(writer.issued) = 2
    /\ writer.issued[1].name = "WriteNull"


\* Number of decimal digits of n >= 0.
NumDigits(n) ==
    CHOOSE k \in 1..(IntBits + 1) :
        /\ n < 10 ^ k
        /\ k > 1 => n >= 10 ^ (k - 1)

\* The canonical decimal form of n, digit by digit.
DecimalOf(n) ==
    LET m == IF n < 0 THEN -n ELSE n
        digits == [j \in 1..NumDigits(m) |->
                      Zero + ((m \div 10 ^ (NumDigits(m) - j)) % 10)]
    IN  IF n < 0 THEN <<Minus>> \o digits ELSE digits

\* The bytes RESP gives to a write operation: the name of the method is
\* op.name, its strings op.s and op.t, its number op.i.
EncodingOf(op) ==
    CASE op.name = "WriteSimpleString" ->
             <<DataTypeSimpleString>> \o EscapeOf(op.s) \o <<CR, LF>>
      [] op.name \in {"WriteError", "WriteRawError"} ->
             <<DataTypeError>> \o ErrorLineOf(op.s, op.t) \o <<CR, LF>>
      [] op.name \in SignedWrites \cup UnsignedWrites ->
             <<DataTypeInteger>> \o DecimalOf(op.i) \o <<CR, LF>>
      [] op.name \in {"WriteString", "WriteBytes"} ->
             <<DataTypeBulkString>> \o DecimalOf(Len(op.s)) \o <<CR, LF>>
                 \o op.s \o <<CR, LF>>
      [] op.name = "WriteNull" ->
             <<DataTypeBulkString, Minus, Zero + 1, CR, LF>>
      [] op.name = "WriteArray" ->
             <<DataTypeArray>> \o DecimalOf(op.i) \o <<CR, LF>>

\* The encodings of the operations ops, one after the other.
RECURSIVE EncodingsOf(_)
EncodingsOf(ops) ==
    IF ops = << >> THEN << >>
    ELSE EncodingOf(Head(ops)) \o EncodingsOf(Tail(ops))

\* The last call was Flush and it returned no error.
Flushed ==
    /\ writer.last.name = "Flush"
    /\ writer.w.ret = nil

\* C29: after any sequence of write operations and a Flush that succeeds, the
\* io.Writer has received the encodings of the operations issued since
\* NewWriter or the last Reset, in the order of the calls, nothing lost,
\* doubled or out of order, whether or not the buffer was flushed when it
\* filled in between.
C29_FlushedIsIssued ==
    Flushed =>
        /\ writer.w.sink = EncodingsOf(writer.issued)
        /\ writer.w.buf = << >>

\* Two operations whose bytes do not fit the buffer were issued, a Flush
\* succeeded, and the io.Writer holds more bytes than the buffer can.
C29_Witness ==
    /\ Flushed
    /\ Len(writer.issued) = 2
    /\ Len(EncodingOf(writer.issued[1])) < WBufSize
    /\ Len(writer.w.sink) > WBufSize

\* A Flush succeeded after a Reset that dropped the bytes of an operation:
\* the io.Writer holds the one operation issued after the Reset.
FlushedAfterReset ==
    /\ Flushed
    /\ writer.n = 2
    /\ Len(writer.issued) = 1
    /\ writer.w.sink # << >>


WriteNames ==
    SignedWrites \cup UnsignedWrites
        \cup {"WriteSimpleString", "WriteError", "WriteRawError",
              "WriteString", "WriteBytes", "WriteNull", "WriteArray"}

\* The last call was a write operation, and a write to the io.Writer failed
\* inside it.
SinkFailedInside ==
    /\ writer.last.name \in WriteNames
    /\ writer.prev.err = nil
    /\ writer.w.err # nil

\* C30: no partial frame is reported as success: when a write of the type
\* byte, the payload, the length prefix or the terminator fails at the
\* io.Writer, the write operation returns an error, though it drops the
\* errors of its inner writes and goes on to the later ones, and that error
\* is the error of the io.Writer as it is; an operation that returns no error
\* has added its whole frame.
C30_NoPartialSuccess ==
    /\ SinkFailedInside =>
           /\ writer.w.ret # nil
           /\ writer.w.ret = ErrTransport
    /\ (writer.last.name \in WriteNames /\ writer.w.ret = nil) =>
           Emits(EncodingOf(writer.last))

\* WriteSimpleString of the long string met the failure of the io.Writer
\* before its payload was taken, went on to the terminator, and returned the
\* error of the io.Writer.
C30_Witness ==
    /\ SinkFailedInside
    /\ writer.last.name = "WriteSimpleString"
    /\ writer.last.s = LongString
    /\ Len(Stream(writer.w)) < Len(Stream(writer.prev)) + 1 + Len(LongString)
    /\ writer.w.sink # writer.prev.sink
    /\ writer.w.ret = ErrTransport


\* C31: Reset(wr) drops the bytes written but not yet flushed: the io.Writer
\* that the Writer leaves holds what it held before the call, the new one has
\* received nothing, the buffer and the kept error are cleared, and the first
\* Flush that succeeds after a Reset that followed writes delivers to the new
\* io.Writer the encodings of the operations issued since that Reset, while
\* the io.Writer that was left receives nothing more.
C31_ResetDropsUnflushed ==
    [][/\ writer'.last.name = "Reset" =>
              /\ writer'.w.old = writer.w.sink
              /\ writer'.w.sink = << >>
              /\ writer'.w.buf = << >>
              /\ writer'.w.err = nil
       /\ (/\ writer'.last.name = "Flush"
           /\ writer'.w.ret = nil
           /\ writer.n > Len(writer.issued)) =>
              /\ writer'.w.sink = EncodingsOf(writer.issued)
              /\ writer'.w.old = writer.w.old]_vars

\* An operation was written and never flushed, a Reset followed, one more
\* operation was written and a Flush succeeded: the io.Writer that was left
\* holds nothing and the new one holds the second operation.
C31_Witness ==
    /\ Flushed
    /\ writer.n = 2
    /\ Len(writer.issued) = 1
    /\ writer.w.old = << >>
    /\ writer.w.sink = EncodingOf(writer.issued[1])
    /\ writer.w.sink # << >>


\* The reads of reader r that returned after its last Reset.
SinceReset(r) == (rd[r].reset.base + 1)..Len(rd[r].out)

\* C32: after Reset(rd) the bytes buffered from the source that was left
\* are gone: what the Reader has not consumed is the rest of the new source,
\* the first read after the Reset starts at the first byte of the new source
\* and each later one where the one before it stopped, a Command returned
\* since the Reset holds the bytes of one command of the new source, and a
\* Command the caller holds from before the Reset has the Raw and the Args
\* it was returned with.
C32_ResetDropsBuffered ==
    \A r \in Readers :
        LET R == rd[r]
        IN  R.reset.n > 0 =>
              /\ Consumed(R) >= 0
              /\ R.buf \o R.src = Drop(R.input, Consumed(R))
              /\ \A k \in SinceReset(r) :
                    /\ R.out[k].from = IF k = R.reset.base + 1 THEN 0
                                       ELSE R.out[k - 1].to
                    /\ R.out[k].to <= Len(R.input)
                    /\ k \in Successes(r) =>
                         /\ R.out[k].raw = SubSeq(R.input,
                                                  R.out[k].to - Len(R.out[k].raw) + 1,
                                                  R.out[k].to)
                         /\ \E j \in 1..Len(R.items) :
                               /\ ItemEnd(R.items, j) = R.out[k].to
                               /\ R.out[k].raw = R.items[j].bytes
              /\ \A k \in 1..R.reset.base :
                    HoldsFrom(r, k) =>
                        /\ Raw(cmds[R.out[k].p]) = R.out[k].raw
                        /\ Args(cmds[R.out[k].p]) = R.out[k].args

\* The caller holds the Command of its first read, the Reset discarded bytes
\* buffered from the first source, and the read after it has returned the
\* first command of the new source in another Command.
C32_Witness ==
    \E r \in Readers :
        /\ rd[r].reset.n = 1
        /\ rd[r].reset.base = 1
        /\ rd[r].reset.dropped # << >>
        /\ HoldsFrom(r, 1)
        /\ Len(rd[r].out) = 2
        /\ 2 \in Successes(r)
        /\ rd[r].out[2].raw = CmdB.bytes
        /\ rd[r].out[2].from = 0
        /\ rd[r].out[1].raw # CmdB.bytes


\* The first call on R was op, one of the reads without a limit, on a source
\* that begins with a line of the type op reads.
UnlimitedReadOfLine(R, op) ==
    /\ Len(R.out) = 1
    /\ R.out[1].op = op
    /\ op \in UnlimitedOps
    /\ R.items[1].kind = "line"
    /\ R.items[1].bytes[1] = DiscriminantOf(op)

\* C33: ReadSimpleString and ReadError, which give readLine no limit, end the
\* line at its CR LF wherever that pair falls in the buffer of the
\* bufio.Reader, also when the CR is the last byte the buffer holds and the
\* LF comes as a slice of one byte: they return the bytes between the type
\* byte and the CR, and consume no byte after the LF.
C33_LineEndsAtFirstCRLF ==
    \A r \in Readers : \A op \in UnlimitedOps :
        UnlimitedReadOfLine(rd[r], op) =>
            /\ rd[r].out[1].err = nil
            /\ rd[r].ret.s = rd[r].items[1].s
            /\ rd[r].ret.msg = << >>
            /\ rd[r].out[1].to = Len(rd[r].items[1].bytes)

\* The line with its type byte and its CR fills the buffer, a command
\* follows it, and the read has returned no error, a string that goes on
\* over the CR LF, and has consumed bytes of the command.
C33_ReadsPastCRLF ==
    \E r \in Readers : \E op \in UnlimitedOps :
        /\ UnlimitedReadOfLine(rd[r], op)
        /\ Len(rd[r].items[1].s) = BufSize - 2
        /\ Len(rd[r].items) = 2
        /\ rd[r].out[1].err = nil
        /\ Len(rd[r].ret.s) > Len(rd[r].items[1].s)
        /\ rd[r].out[1].to > Len(rd[r].items[1].bytes)

\* What holds of the code: a line whose CR is not the last byte of a full
\* buffer is ended at its CR LF.
LineEndsAtFirstCRLFElsewhere ==
    \A r \in Readers : \A op \in UnlimitedOps :
        (/\ UnlimitedReadOfLine(rd[r], op)
         /\ (Len(rd[r].items[1].s) + 2) % BufSize # 0) =>
            /\ rd[r].out[1].err = nil
            /\ rd[r].ret.s = rd[r].items[1].s
            /\ rd[r].ret.msg = << >>
            /\ rd[r].out[1].to = Len(rd[r].items[1].bytes)


\* Call k of ReadAny on R was given a bulk string frame of negative declared
\* length.
ReadAnyOfNull(R, k) ==
    /\ ReadAnyOfBulk(R, k)
    /\ DeclaredLength(R.items[k]) < 0

\* C34: readBulk on a header that declares a negative length returns the
\* null flag having consumed the header line and nothing more: the read
\* starts at the first byte of the header, stops after its CR LF, holds the
\* header alone in Raw, and the next read starts at the byte after that LF
\* and returns the frame that begins there.
C34_NullConsumesHeaderOnly ==
    \A r \in Readers : \A k \in 1..Len(rd[r].out) :
        ReadAnyOfNull(rd[r], k) =>
            LET R == rd[r]
                o == R.out[k]
            IN  /\ o.err = nil
                /\ o.dt = DataTypeNull
                /\ o.from = ItemEnd(R.items, k - 1)
                /\ o.to = ItemEnd(R.items, k)
                /\ o.to - o.from = IndexByte(R.items[k].bytes, LF)
                /\ k = Len(R.out) => Consumed(R) = o.to
                /\ k < Len(R.out) => R.out[k + 1].from = o.to
                /\ (k < Len(R.out) /\ k < Len(R.items)) =>
                       /\ R.out[k + 1].err = nil
                       /\ R.out[k + 1].dt = R.items[k + 1].dt
                       /\ R.out[k + 1].v = R.items[k + 1].v

\* A null bulk string was read while the bytes of the bulk string after it
\* were buffered, and the next ReadAny has returned that bulk string.
C34_Witness ==
    \E r \in Readers :
        /\ ReadAnyOfNull(rd[r], 1)
        /\ Len(rd[r].out) = 2
        /\ Len(rd[r].items) = 2
        /\ rd[r].chunk = BufSize
        /\ rd[r].out[1].dt = DataTypeNull
        /\ rd[r].out[2].dt = DataTypeBulkString
        /\ rd[r].out[2].v.s = <<LetterA>>
        /\ rd[r].out[2].from = Len(rd[r].items[1].bytes)


\* The errors of framing and of length.
IsFramingError(err) ==
    \/ err \in {ErrMultibulkLength, ErrBulkLength, errLineLimitExceeded}
    \/ err.k = "expected"

\* Call k on R was a ReadCommand that began at item j of the source, a piece
\* that ends with a CR LF terminated line the Reader must refuse.
ReadCommandOfBadLine(R, k, j) ==
    /\ k <= Len(R.out)
    /\ j <= Len(R.items)
    /\ R.out[k].op = "ReadCommand"
    /\ R.out[k].from = ItemEnd(R.items, j - 1)
    /\ R.items[j].kind = "badline"

\* The call has failed with an error of framing or of length, it has
\* consumed the bytes up to the LF that ends item j and put none back, the
\* next read starts at the byte after that LF, and when a command begins
\* there the next ReadCommand returns it.
StopsAfterLine(R, k, j) ==
    LET o == R.out[k]
    IN  /\ IsFramingError(o.err)
        /\ o.to = ItemEnd(R.items, j)
        /\ (k = Len(R.out) /\ R.pc = "idle") => Consumed(R) = o.to
        /\ k < Len(R.out) => R.out[k + 1].from = o.to
        /\ (/\ k < Len(R.out)
            /\ j < Len(R.items)
            /\ R.out[k + 1].op = "ReadCommand"
            /\ R.items[j + 1].kind = "cmd") =>
               /\ R.out[k + 1].err = nil
               /\ R.out[k + 1].raw = R.items[j + 1].bytes
               /\ R.out[k + 1].args = R.items[j + 1].args

OneSliceLines(b) ==
    /\ Len(b) <= BufSize
    /\ \A i \in 1..Len(b) : b[i] = LF => (i > 1 /\ b[i - 1] = CR)

StopsInsideLongLine ==
    \E r \in Readers :
        /\ ReadCommandOfBadLine(rd[r], 1, 1)
        /\ Len(rd[r].items[1].bytes) > BufSize
        /\ rd[r].out[1].err = ErrMultibulkLength
        /\ rd[r].out[1].to = BufSize
        /\ Len(rd[r].out) = 2
        /\ rd[r].out[2].err # nil


\* Call k on R was a ReadAny that failed with the error of the reply type
\* byte.
ReplyTypeByteError(R, k) ==
    /\ k <= Len(R.out)
    /\ R.out[k].op = "ReadAny"
    /\ R.out[k].err.k = "replytype"

\* C36: a ReadAny that fails with the error of the reply type byte has
\* consumed no byte, the byte it has read is back in the buffer: the call
\* ends at the offset at which it began, and a ReadAny called right after it
\* begins at the same offset and returns the same error, type and value.
C36_UnknownByteNotConsumed ==
    \A r \in Readers : \A k \in 1..Len(rd[r].out) :
        ReplyTypeByteError(rd[r], k) =>
            LET R == rd[r]
                o == R.out[k]
            IN  /\ o.to = o.from
                /\ o.err.x = R.input[o.from + 1]
                /\ k = Len(R.out) =>
                       /\ Consumed(R) = o.from
                       /\ R.buf # << >>
                       /\ R.buf[1] = o.err.x
                /\ k < Len(R.out) =>
                       /\ R.out[k + 1].from = o.from
                       /\ R.out[k + 1].to = o.from
                       /\ R.out[k + 1].err = o.err
                       /\ R.out[k + 1].dt = o.dt
                       /\ R.out[k + 1].v = o.v

\* After a well-formed frame, two calls of ReadAny in a row have failed on
\* the same '_' of a source that delivers one byte at a time.
C36_Witness ==
    \E r \in Readers :
        /\ Len(rd[r].out) = 3
        /\ rd[r].out[1].err = nil
        /\ ReplyTypeByteError(rd[r], 2)
        /\ ReplyTypeByteError(rd[r], 3)
        /\ rd[r].out[3].err.x = DataTypeNull
        /\ rd[r].out[3].from = rd[r].out[1].to
        /\ rd[r].chunk = 1


\* The call in progress on R, or the last one, reads the bulk string that
\* its source holds: ReadString the bulk string alone, ReadCommand the one
\* that is the element of a command.
ReadsItsBulk(R) ==
    /\ R.items[1].kind = "bulk"
    /\ R.calls = 1
    /\ \/ R.op = "ReadString" /\ R.items[1].bytes[1] = DataTypeBulkString
       \/ R.op = "ReadCommand" /\ R.items[1].bytes[1] = DataTypeArray

\* C38 as the specification states it: for every bulk length the parser
\* accepts, the largest int included, readBulk ends with content, the null
\* flag or an error, and the length + 2 it passes to grow is positive.
C38_GrowRequestPositive ==
    \A r \in Readers :
        ReadsItsBulk(rd[r]) =>
            /\ rd[r].pc # "panic"
            /\ rd[r].items[1].n >= 0 =>
                   WrapInt(rd[r].items[1].n + crlfLength) > 0

\* The declared length is the largest int: length + 2 has wrapped to a
\* negative number, grow has sliced Raw to a negative length and the call has
\* ended in a panic of the runtime.
C38_GrowPanics ==
    \E r \in Readers :
        /\ ReadsItsBulk(rd[r])
        /\ rd[r].op = "ReadCommand"
        /\ rd[r].items[1].n = MaxInt
        /\ WrapInt(rd[r].items[1].n + crlfLength) < 0
        /\ rd[r].pc = "panic"

\* What holds of the code: for the lengths up to the largest int less 2 the
\* request is positive and the call returns, with the content, with the null
\* flag, or with an error.
BulkLengthsBelowWrap ==
    \A r \in Readers :
        (ReadsItsBulk(rd[r]) /\ rd[r].items[1].n <= MaxInt - crlfLength) =>
            /\ rd[r].pc # "panic"
            /\ rd[r].items[1].n >= 0 =>
                   WrapInt(rd[r].items[1].n + crlfLength) > 0
            /\ (Len(rd[r].out) = 1 /\ rd[r].op = "ReadString") =>
                   \/ rd[r].ret.null /\ rd[r].items[1].n < 0
                   \/ /\ rd[r].ret.err = nil
                      /\ Len(rd[r].ret.s) = rd[r].items[1].n
                   \/ rd[r].ret.err = EOF /\ rd[r].items[1].n > 2


\* A call of ReadCommand is in progress.
InReadCommand == \E r \in Readers : rd[r].pc \in {"header", "bulk", "ret"}

\* No call is in progress: each has returned to its caller, with a Command,
\* an error or io.EOF.
AllReturned == \A r \in Readers : rd[r].pc = "idle"

\* A call has ended in a panic of the runtime.
Panicked == \E r \in Readers : rd[r].pc = "panic"

\* C37: on a source that ends after finitely many bytes, every call of
\* ReadCommand returns, with a Command, an error or io.EOF, also when the
\* source holds many array headers of no element in a row or ends inside a
\* bulk string.
C37_ReadCommandReturns == InReadCommand ~> AllReturned

\* A call of ReadCommand has skipped array headers of no element and has
\* ended in a panic at a bulk string of the largest declared length.
C37_EndsInPanic ==
    \E r \in Readers :
        /\ rd[r].pc = "panic"
        /\ rd[r].items[1].kind = "skip"
        /\ rd[r].items[2] = HugeBulkItem
        /\ rd[r].calls = 1

\* The source of each Reader holds no bulk string whose length + 2 wraps.
NoHugeBulk ==
    \A r \in Readers : \A j \in 1..Len(rd[r].items) :
        rd[r].items[j] # HugeBulkItem

\* What holds of the code: every call ends, and it returns when the source
\* holds no bulk string whose length + 2 wraps.
ReadCommandEnds == InReadCommand ~> (AllReturned \/ Panicked)

ReadCommandReturnsBelowWrap == (InReadCommand /\ NoHugeBulk) ~> AllReturned

\* A call has returned io.EOF after it has skipped all the array headers of
\* a source that ends inside a bulk string.
ReturnedAfterManySkips ==
    \E r \in Readers :
        /\ Len(rd[r].items) = MaxItems + 3
        /\ rd[r].items[MaxItems + 3].kind = "trunc"
        /\ Len(rd[r].out) = 1
        /\ rd[r].out[1].err = EOF
        /\ rd[r].out[1].to = Len(rd[r].input)


\* The kind that is read back: ERR for no kind.
KindReadBack(it) == IF it.ek = << >> THEN DefaultKind ELSE it.ek

\* C39: for every kind that is not empty and holds no space, CR or LF, and
\* every msg that holds no CR or LF, empty ones and ones with spaces included,
\* ReadError over the bytes of WriteRawError(kind, msg) returns kind and msg
\* and no error; for the empty kind it returns the kind ERR.
C39_ErrorRoundTrip ==
    \A r \in Readers :
        FirstReadOf(rd[r], "ReadError", "err") =>
            /\ rd[r].out[1].err = nil
            /\ rd[r].ret.s = KindReadBack(rd[r].items[1])
            /\ rd[r].ret.msg = rd[r].items[1].em

\* ReadError was given the bytes of an error of kind E whose line, with the
\* type byte and the CR, fills the buffer of the bufio.Reader, and has
\* returned io.EOF.
C39_TerminatorAcrossBuffers ==
    \E r \in Readers :
        /\ FirstReadOf(rd[r], "ReadError", "err")
        /\ rd[r].items[1].ek = <<UpperE>>
        /\ Len(rd[r].items[1].bytes) = BufSize + 1
        /\ rd[r].out[1].err = EOF
        /\ rd[r].ret.s = << >>

\* What holds of the code: the errors whose frame does not end its CR at a
\* multiple of the size of the buffer are read back.
ErrorRoundTripElsewhere ==
    \A r \in Readers :
        (/\ FirstReadOf(rd[r], "ReadError", "err")
         /\ (Len(rd[r].items[1].bytes) - 1) % BufSize # 0) =>
            /\ rd[r].out[1].err = nil
            /\ rd[r].ret.s = KindReadBack(rd[r].items[1])
            /\ rd[r].ret.msg = rd[r].items[1].em

\* ReadError has read back an error written with no kind and a message of a
\* space and an 'a': the kind ERR and that message.
ErrorWithoutKindReadBack ==
    \E r \in Readers :
        /\ FirstReadOf(rd[r], "ReadError", "err")
        /\ rd[r].items[1].ek = << >>
        /\ rd[r].items[1].em = <<Space, LetterA>>
        /\ rd[r].ret.s = DefaultKind
        /\ rd[r].ret.msg = <<Space, LetterA>>


\* C40: grow(n) with n >= 0 makes Raw exactly n bytes longer, leaves the
\* bytes Raw held as they are, and does not lower the capacity of Raw; it
\* leaves Args alone.  reset sets the lengths of Raw and of Args to 0 and
\* leaves both capacities as they are.
C40_BuffersKeepBytesAndCapacity ==
    [][(call'.done /\ ~call.done) =>
          /\ call'.fn = "grow" =>
                /\ cmds'[1].len = cmds[1].len + call'.arg[1]
                /\ Take(Raw(cmds'[1]), cmds[1].len) = Raw(cmds[1])
                /\ CapRaw(cmds'[1]) >= CapRaw(cmds[1])
                /\ CapRaw(cmds'[1]) >= cmds'[1].len
                /\ Args(cmds'[1]) = Args(cmds[1])
                /\ cmds'[1].argsCap = cmds[1].argsCap
          /\ call'.fn = "reset" =>
                /\ cmds'[1].len = 0
                /\ Raw(cmds'[1]) = << >>
                /\ Len(cmds'[1].args) = 0
                /\ CapRaw(cmds'[1]) = CapRaw(cmds[1])
                /\ cmds'[1].argsCap = cmds[1].argsCap]_vars

\* grow has moved Raw to a larger array: Raw had bytes and fitted the array
\* of a new Command before the call and does not fit it now, the bytes are
\* there and zeros follow them.
C40_Witness ==
    /\ call.done
    /\ call.fn = "grow"
    /\ Len(cmds[1].arrs) = 2
    /\ cmds[1].len > initialCommandRawSize
    /\ cmds[1].len - call.arg[1] <= initialCommandRawSize
    /\ cmds[1].len - call.arg[1] > 0
    /\ Raw(cmds[1])[1] = LetterA
    /\ Raw(cmds[1])[cmds[1].len] = 0
    /\ Len(cmds[1].args) > initialCommandArgsSize

\* reset has emptied a Command whose Raw and Args had outgrown the capacities
\* of a new Command, and has kept the capacities.
ResetKeepsCapacity ==
    /\ call.done
    /\ call.fn = "reset"
    /\ cmds[1].len = 0
    /\ CapRaw(cmds[1]) > initialCommandRawSize
    /\ cmds[1].argsCap > initialCommandArgsSize

====
